---- MODULE Spec2Model ----
(***************************************************************************)
(* Model of the context budgeting and long-term memory engine of the       *)
(* assistant backend: ContextService (context_service.py), the key context *)
(* and conversation repositories, and AssistantService.handle_user_request.*)
(*                                                                         *)
(* A Python str is a sequence of one-character strings, so that len,       *)
(* slicing, strip, lower, replace and split are computed as the code       *)
(* computes them.  An Optional[str] that is None is the empty sequence:    *)
(* the code only tests such values for truthiness.                         *)
(***************************************************************************)
EXTENDS Integers, Sequences, FiniteSets, TLC

VARIABLES
    \* ---- ContextService.build_optimized_context: arguments, settings, locals
    fixed_context,            \* argument fixed_context
    key_context_data,         \* argument key_context_data (list of dicts)
    context_conversations,    \* argument context_conversations (list of dicts)
    max_key_context_chars,    \* self.max_key_context_chars
    max_conversation_chars,   \* self.max_conversation_chars
    max_total_context_chars,  \* self.max_total_context_chars
    key_context_section,      \* local key_context_section
    conversation_section,     \* local conversation_section
    instruction,              \* the returned text
    built,                    \* TRUE once build_optimized_context has returned
    \* ---- the database and the clock
    key_contexts,             \* collection key_contexts, in natural (insertion) order
    next_id,                  \* the next ObjectId the database hands out
    clock,                    \* the last value utc_now() returned
    \* ---- repository calls made from outside a request (SpecRepo)
    calls,                    \* number of repository calls made
    frames,                   \* per call in progress: its position (pc) and its local variables
    last_call,                \* the call that returned last: arguments, store it read, result
    \* ---- AssistantService.handle_user_request (Spec)
    conversations,            \* collection conversations, in natural (insertion) order
    turns,                    \* per request: its position (pc) and its local variables
    overlapped                \* per user: TRUE once two of its requests were in flight together

budget_vars == <<fixed_context, key_context_data, context_conversations,
                 max_key_context_chars, max_conversation_chars,
                 max_total_context_chars, key_context_section,
                 conversation_section, instruction, built>>

store_vars == <<key_contexts, next_id, clock>>

repo_vars == <<calls, frames, last_call>>

turn_vars == <<conversations, turns, overlapped>>

vars == <<budget_vars, store_vars, repo_vars, turn_vars>>

(***************************************************************************)
(* Bounds of the model.                                                    *)
(***************************************************************************)
MaxKeys == 3
MaxConvs == 2
MaxCalls == 3
MaxTurns == 3
MaxInFlight == 2

\* the storage failures one request meets
MaxFaults == 1

(***************************************************************************)
(* Python str and int primitives.                                          *)
(***************************************************************************)
Max(a, b) == IF a >= b THEN a ELSE b

Rep(c, n) == [i \in 1..n |-> c]

SeqsUpTo(S, n) == UNION {[1..k -> S] : k \in 0..n}

UpperCase == <<"A", "B", "C", "D", "E", "F", "G", "H", "I", "J", "K", "L", "M", "N", "O", "P", "Q", "R", "S", "T", "U", "V", "W", "X", "Y", "Z">>

LowerCase == <<"a", "b", "c", "d", "e", "f", "g", "h", "i", "j", "k", "l", "m", "n", "o", "p", "q", "r", "s", "t", "u", "v", "w", "x", "y", "z">>

Digits == <<"0", "1", "2", "3", "4", "5", "6", "7", "8", "9">>

WhiteSpace == {" ", "\n", "\t", "\r"}

LowerChar(c) == IF \E i \in 1..Len(UpperCase) : UpperCase[i] = c THEN LowerCase[CHOOSE i \in 1..Len(UpperCase) : UpperCase[i] = c] ELSE c

\* str.lower()
Lower(s) == [i \in 1..Len(s) |-> LowerChar(s[i])]

RECURSIVE LStrip(_)
LStrip(s) == IF s = <<>> \/ Head(s) \notin WhiteSpace THEN s ELSE LStrip(Tail(s))

RECURSIVE RStrip(_)
RStrip(s) == IF s = <<>> \/ s[Len(s)] \notin WhiteSpace THEN s ELSE RStrip(SubSeq(s, 1, Len(s) - 1))

\* str.strip()
Strip(s) == RStrip(LStrip(s))

\* str.replace(c, '')
Remove(s, c) == SelectSeq(s, LAMBDA x : x # c)

RECURSIVE SplitAcc(_, _, _)
SplitAcc(s, cur, acc) ==
    IF s = <<>> THEN (IF cur = <<>> THEN acc ELSE Append(acc, cur))
    ELSE IF Head(s) \in WhiteSpace
         THEN SplitAcc(Tail(s), <<>>, IF cur = <<>> THEN acc ELSE Append(acc, cur))
         ELSE SplitAcc(Tail(s), Append(cur, Head(s)), acc)

\* str.split(): the list of maximal runs of non-whitespace characters
Split(s) == SplitAcc(s, <<>>, <<>>)

\* set(list)
ToSet(seq) == {seq[i] : i \in 1..Len(seq)}

\* str.startswith(p)
StartsWith(s, p) == Len(s) >= Len(p) /\ SubSeq(s, 1, Len(p)) = p

\* s[:n] for n >= 0
SliceTo(s, n) == SubSeq(s, 1, IF n < Len(s) THEN n ELSE Len(s))

RECURSIVE NatToStr(_)
NatToStr(n) == IF n < 10 THEN <<Digits[n + 1]>> ELSE NatToStr(n \div 10) \o <<Digits[(n % 10) + 1]>>

\* str(int), as an f-string renders an int
IntToStr(n) == IF n < 0 THEN <<"-">> \o NatToStr(-n) ELSE NatToStr(n)

\* str(datetime), as an f-string renders a timestamp: the datetime of logical
\* time t renders as "T<t>"
TsToStr(t) == <<"T">> \o NatToStr(t)

(***************************************************************************)
(* ContextService (context_service.py).                                    *)
(***************************************************************************)
KeyContextHeader == <<"K", "E", "Y", " ", "C", "O", "N", "T", "E", "X", "T", " ", "F", "R", "O", "M", " ", "P", "R", "E", "V", "I", "O", "U", "S", " ", "I", "M", "P", "O", "R", "T", "A", "N", "T", " ", "I", "N", "T", "E", "R", "A", "C", "T", "I", "O", "N", "S", ":", "\n">>

ConversationHeader == <<"R", "E", "C", "E", "N", "T", " ", "C", "O", "N", "V", "E", "R", "S", "A", "T", "I", "O", "N", " ", "H", "I", "S", "T", "O", "R", "Y", ":", "\n">>

TruncationMarker == <<"\n", "\n", "[", "C", "o", "n", "t", "e", "x", "t", " ", "t", "r", "u", "n", "c", "a", "t", "e", "d", " ", "t", "o", " ", "f", "i", "t", " ", "l", "i", "m", "i", "t", "s", "]">>

AssistantPrefix == <<"a", "s", "s", "i", "s", "t", "a", "n", "t", ":">>

SectionGap == <<"\n", "\n">>

\* the "50 chars buffer" of _ensure_total_length_limit
TruncationBuffer == 50

\* sorted(key_context_data, key=context_priority, reverse=True): stable, so
\* x goes behind every element whose priority is >= its own
InsertByPriority(sorted, x) ==
    LET k == Cardinality({i \in 1..Len(sorted) : sorted[i].context_priority >= x.context_priority})
    IN  SubSeq(sorted, 1, k) \o <<x>> \o SubSeq(sorted, k + 1, Len(sorted))

RECURSIVE SortFrom(_, _)
SortFrom(rest, acc) == IF rest = <<>> THEN acc ELSE SortFrom(Tail(rest), InsertByPriority(acc, Head(rest)))

SortedByPriority(data) == SortFrom(data, <<>>)

\* f"{i}. [{timestamp} | priority: {context_priority}] {relevant_info}\n"
KeyContextLine(i, context) ==
    NatToStr(i) \o <<".", " ", "[">> \o TsToStr(context.timestamp)
      \o <<" ", "|", " ", "p", "r", "i", "o", "r", "i", "t", "y", ":", " ">>
      \o IntToStr(context.context_priority) \o <<"]", " ">> \o context.relevant_info \o <<"\n">>

\* the loop of _build_key_context_section with "continue" in place of "break"
RECURSIVE KeyContextLoop_Continue(_, _, _, _)
KeyContextLoop_Continue(sorted, i, content, cap) ==
    IF i > Len(sorted) THEN content
    ELSE LET line == KeyContextLine(i, sorted[i])
         IN  IF Len(content) + Len(line) > cap
             THEN KeyContextLoop_Continue(sorted, i + 1, content, cap)
             ELSE KeyContextLoop_Continue(sorted, i + 1, content \o line, cap)

\* the loop of _build_key_context_section: append lines until one does not fit
RECURSIVE KeyContextLoop(_, _, _, _)
KeyContextLoop(sorted, i, content, cap) ==
    IF i > Len(sorted) THEN content
    ELSE LET line == KeyContextLine(i, sorted[i])
         IN  IF Len(content) + Len(line) > cap
             THEN content
             ELSE KeyContextLoop(sorted, i + 1, content \o line, cap)

BuildKeyContextSection(data, cap) ==
    IF data = <<>> THEN <<>>
    ELSE LET content == KeyContextLoop(SortedByPriority(data), 1, <<>>, cap)
         IN  IF content # <<>> THEN KeyContextHeader \o content ELSE <<>>

\* clean_reply: a leading "assistant:" (any case) is cut and the rest stripped
CleanReply(server_reply) ==
    IF StartsWith(Lower(server_reply), AssistantPrefix)
    THEN Strip(SubSeq(server_reply, Len(AssistantPrefix) + 1, Len(server_reply)))
    ELSE server_reply

\* f"User: {user_input} (at {timestamp})\nAssistant: {clean_reply}\n\n"
ConvEntry(conv) ==
    <<"U", "s", "e", "r", ":", " ">> \o conv.user_input \o <<" ", "(", "a", "t", " ">>
      \o TsToStr(conv.timestamp) \o <<")", "\n", "A", "s", "s", "i", "s", "t", "a", "n", "t", ":", " ">>
      \o CleanReply(conv.server_reply) \o <<"\n", "\n">>

\* the loop of _build_conversation_section: walks reversed(context_conversations),
\* i.e. from the last element of the list to the first, prepending each entry
RECURSIVE ConversationLoop(_, _, _, _)
ConversationLoop(convs, i, content, cap) ==
    IF i < 1 THEN content
    ELSE LET entry == ConvEntry(convs[i])
         IN  IF Len(content) + Len(entry) > cap
             THEN content
             ELSE ConversationLoop(convs, i - 1, entry \o content, cap)

BuildConversationSection(convs, cap) ==
    IF convs = <<>> THEN <<>>
    ELSE LET content == ConversationLoop(convs, Len(convs), <<>>, cap)
         IN  IF content # <<>> THEN ConversationHeader \o content ELSE <<>>

\* _ensure_total_length_limit without the 50 chars buffer
EnsureTotalLengthLimit_NoBuffer(text, fixed, cap) ==
    IF Len(text) <= cap THEN text
    ELSE IF cap - Len(fixed) <= 0 THEN fixed
         ELSE SliceTo(text, cap) \o TruncationMarker

\* _ensure_total_length_limit cutting the fixed context when it does not fit
EnsureTotalLengthLimit_CutFixed(text, fixed, cap) ==
    IF Len(text) <= cap THEN text
    ELSE IF cap - Len(fixed) - TruncationBuffer <= 0 THEN SliceTo(fixed, Max(cap, 0))
         ELSE SliceTo(text, cap - TruncationBuffer) \o TruncationMarker

EnsureTotalLengthLimit(text, fixed, cap) ==
    IF Len(text) <= cap THEN text
    ELSE LET available_space == cap - Len(fixed) - TruncationBuffer
         IN  IF available_space <= 0 THEN fixed
             ELSE SliceTo(text, cap - TruncationBuffer) \o TruncationMarker

\* the instruction of build_optimized_context before the final length check
JoinSections(fixed, key_section, conv_section) ==
    fixed \o (IF key_section # <<>> THEN SectionGap \o key_section ELSE <<>>)
          \o (IF conv_section # <<>> THEN SectionGap \o conv_section ELSE <<>>)

(***************************************************************************)
(* KeyContextRepository (key_context_repository.py).  A KeyContext         *)
(* document is a record; the collection is the sequence of its documents   *)
(* in natural order.  ObjectIds are 1, 2, ...; NoDoc, of id NoId, stands    *)
(* for None where a document is expected.                                  *)
(***************************************************************************)
NoId == 0

NoDoc == [id |-> NoId]

Users == {"u1", "u2"}

TextUsersNameIsAna == <<"u", "s", "e", "r", "s", " ", "n", "a", "m", "e", " ", "i", "s", " ", "a", "n", "a", ".">>

TextTheUsersNameIsAna == <<"T", "h", "e", " ", "u", "s", "e", "r", "'", "s", " ", "n", "a", "m", "e", " ", "i", "s", " ", "A", "n", "a">>

TextUsersNameCommaIsAna == <<"U", "s", "e", "r", "s", " ", "n", "a", "m", "e", ",", " ", "i", "s", " ", "A", "n", "a">>

TextDot == <<".">>

TextComma == <<",">>

KeyContextDoc(id, user_id, info, prio, created, updated) ==
    [id |-> id, user_id |-> user_id, relevant_info |-> info, context_priority |-> prio,
     created_at |-> created, updated_at |-> updated]

\* the position of the document with this id in the collection, 0 if none
IndexOfId(store, id) == IF \E i \in 1..Len(store) : store[i].id = id THEN CHOOSE i \in 1..Len(store) : store[i].id = id ELSE 0

\* KeyContext.get(id): the document, or NoDoc
GetDoc(store, id) == IF IndexOfId(store, id) = 0 THEN NoDoc ELSE store[IndexOfId(store, id)]

\* document.save(): every field of the in-memory document is written to the
\* stored document of the same id, which is inserted if it does not exist
SaveDoc(store, doc) == IF IndexOfId(store, doc.id) = 0 THEN Append(store, doc) ELSE [store EXCEPT ![IndexOfId(store, doc.id)] = doc]

\* document.delete()
DeleteDoc(store, id) == SelectSeq(store, LAMBDA e : e.id # id)

\* set(text.replace('.', '').replace(',', '').split())
WordSet(normalized) == ToSet(Split(Remove(Remove(normalized, "."), ",")))

\* one iteration of the loop of _find_similar_context with a threshold of 0.5
PairSimilar_LowThreshold(existing_info, new_info) ==
    LET existing_normalized == Strip(Lower(existing_info))
        normalized_info == Strip(Lower(new_info))
        existing_words == WordSet(existing_normalized)
        new_words == WordSet(normalized_info)
        longest == Max(Cardinality(existing_words), Cardinality(new_words))
    IN  IF existing_normalized = normalized_info THEN "match"
        ELSE IF longest = 0 THEN "error"
        ELSE IF 10 * Cardinality(existing_words \cap new_words) >= 5 * longest THEN "match"
        ELSE "nomatch"

\* one iteration of the loop of _find_similar_context: "match" (return context),
\* "nomatch" (next context) or "error" (the division raises ZeroDivisionError
\* when neither text has a word).  len(..) / max(..) >= 0.9 on ints is
\* 10 * len(..) >= 9 * max(..)
PairSimilar(existing_info, new_info) ==
    LET existing_normalized == Strip(Lower(existing_info))
        normalized_info == Strip(Lower(new_info))
        existing_words == WordSet(existing_normalized)
        new_words == WordSet(normalized_info)
        longest == Max(Cardinality(existing_words), Cardinality(new_words))
    IN  IF existing_normalized = normalized_info THEN "match"
        ELSE IF longest = 0 THEN "error"
        ELSE IF 10 * Cardinality(existing_words \cap new_words) >= 9 * longest THEN "match"
        ELSE "nomatch"

\* KeyContext.find(user_id == u, context_priority > 0).to_list()
\* the active documents, were the query not restricted to the user
ActiveContexts_AllUsers(store, user_id) == SelectSeq(store, LAMBDA e : e.context_priority > 0)

ActiveContexts(store, user_id) == SelectSeq(store, LAMBDA e : e.user_id = user_id /\ e.context_priority > 0)

\* the loop of _find_similar_context; an exception leaves through the
\* "except Exception: return None" of the method
RECURSIVE FindSimilarLoop(_, _, _)
FindSimilarLoop(existing_contexts, i, new_info) ==
    IF i > Len(existing_contexts) THEN NoDoc
    ELSE LET r == PairSimilar(existing_contexts[i].relevant_info, new_info)
         IN  IF r = "match" THEN existing_contexts[i]
             ELSE IF r = "error" THEN NoDoc
             ELSE FindSimilarLoop(existing_contexts, i + 1, new_info)

\* _find_similar_context: the first similar active document, or NoDoc (None)
FindSimilarContext(store, user_id, new_info) == FindSimilarLoop(ActiveContexts(store, user_id), 1, new_info)

\* save_user_key_context after _find_similar_context returned a document:
\* the document with its priority raised (if the new one is higher) and its
\* timestamp refreshed
MergedDoc(existing, prio, now) ==
    [existing EXCEPT !.context_priority = IF prio > existing.context_priority THEN prio ELSE existing.context_priority,
                     !.updated_at = now]

\* .sort("-context_priority", "-updated_at"): x goes behind every document
\* that sorts before it or equal to it
\* the sort, were it by "-context_priority" alone
InsertContext_PriorityOnly(sorted, x) ==
    LET k == Cardinality({i \in 1..Len(sorted) : sorted[i].context_priority >= x.context_priority})
    IN  SubSeq(sorted, 1, k) \o <<x>> \o SubSeq(sorted, k + 1, Len(sorted))

InsertContext(sorted, x) ==
    LET k == Cardinality({i \in 1..Len(sorted) :
                 \/ sorted[i].context_priority > x.context_priority
                 \/ /\ sorted[i].context_priority = x.context_priority
                    /\ sorted[i].updated_at >= x.updated_at})
    IN  SubSeq(sorted, 1, k) \o <<x>> \o SubSeq(sorted, k + 1, Len(sorted))

RECURSIVE SortContextsFrom(_, _)
SortContextsFrom(rest, acc) == IF rest = <<>> THEN acc ELSE SortContextsFrom(Tail(rest), InsertContext(acc, Head(rest)))

SortContexts(docs) == SortContextsFrom(docs, <<>>)

\* default limit of get_user_key_contexts
DefaultKeyContextLimit == 30

\* default max_chars of get_optimized_key_contexts
DefaultKeyContextMaxChars == 1500

\* default min_priority of get_optimized_key_contexts
DefaultMinPriority == 1

\* default max_chars of get_optimized_conversations
DefaultConversationMaxChars == 2000

\* get_user_key_contexts(user_id, limit): every document of the user, whatever
\* its priority, sorted, cut to limit
GetUserKeyContexts(store, user_id, limit) ==
    SliceTo(SortContexts(SelectSeq(store, LAMBDA e : e.user_id = user_id)), limit)

\* the loop of get_optimized_key_contexts: context_text = f"- {relevant_info}"
RECURSIVE OptimizedKeyLoop(_, _, _, _, _)
OptimizedKeyLoop(contexts, idx, total_chars, max_chars, acc) ==
    IF idx > Len(contexts) THEN acc
    ELSE LET context_chars == 2 + Len(contexts[idx].relevant_info)
         IN  IF total_chars + context_chars > max_chars THEN acc
             ELSE OptimizedKeyLoop(contexts, idx + 1, total_chars + context_chars, max_chars,
                     Append(acc, [relevant_info |-> contexts[idx].relevant_info,
                                  timestamp |-> contexts[idx].updated_at,
                                  context_priority |-> contexts[idx].context_priority,
                                  entry_number |-> idx,
                                  char_count |-> context_chars]))

\* the query of get_optimized_key_contexts without its priority filter
OptimizedKeyQuery_AllPriorities(store, user_id, min_priority) ==
    SortContexts(SelectSeq(store, LAMBDA e : e.user_id = user_id))

\* the documents get_optimized_key_contexts reads: the user's documents of
\* priority >= min_priority, sorted
OptimizedKeyQuery(store, user_id, min_priority) ==
    SortContexts(SelectSeq(store, LAMBDA e : e.user_id = user_id /\ e.context_priority >= min_priority))

\* get_optimized_key_contexts(user_id, max_chars, min_priority)
GetOptimizedKeyContexts(store, user_id, max_chars, min_priority) ==
    OptimizedKeyLoop(OptimizedKeyQuery(store, user_id, min_priority), 1, 0, max_chars, <<>>)

(***************************************************************************)
(* ConversationRepository (conversation_repository.py).                    *)
(***************************************************************************)
ConversationDoc(id, user_id, user_input, server_reply, interaction_params, timestamp) ==
    [id |-> id, user_id |-> user_id, user_input |-> user_input, server_reply |-> server_reply,
     interaction_params |-> interaction_params, timestamp |-> timestamp]

\* .sort("-timestamp")
InsertConversation(sorted, x) ==
    LET k == Cardinality({i \in 1..Len(sorted) : sorted[i].timestamp >= x.timestamp})
    IN  SubSeq(sorted, 1, k) \o <<x>> \o SubSeq(sorted, k + 1, Len(sorted))

RECURSIVE SortConversationsFrom(_, _)
SortConversationsFrom(rest, acc) == IF rest = <<>> THEN acc ELSE SortConversationsFrom(Tail(rest), InsertConversation(acc, Head(rest)))

\* Conversation.find(user_id == u).sort("-timestamp").to_list(): newest first
UserConversations(convs, user_id) == SortConversationsFrom(SelectSeq(convs, LAMBDA c : c.user_id = user_id), <<>>)

\* the loop of get_optimized_conversations:
\* conversation_text = f"User: {user_input}\nAssistant: {server_reply}"
RECURSIVE OptimizedConversationLoop(_, _, _, _, _)
OptimizedConversationLoop(convs, i, total_chars, max_chars, acc) ==
    IF i > Len(convs) THEN acc
    ELSE LET conv_chars == 6 + Len(convs[i].user_input) + 12 + Len(convs[i].server_reply)
         IN  IF total_chars + conv_chars > max_chars THEN acc
             ELSE OptimizedConversationLoop(convs, i + 1, total_chars + conv_chars, max_chars,
                     Append(acc, [user_input |-> convs[i].user_input,
                                  server_reply |-> convs[i].server_reply,
                                  timestamp |-> convs[i].timestamp,
                                  interaction_params |-> convs[i].interaction_params,
                                  char_count |-> conv_chars]))

\* get_optimized_conversations(user_id, max_chars)
GetOptimizedConversations(convs, user_id, max_chars) ==
    OptimizedConversationLoop(UserConversations(convs, user_id), 1, 0, max_chars, <<>>)

(***************************************************************************)
(* A request handled by AssistantService.handle_user_request: its position *)
(* and its local variables.  snapshot_ids is not a variable of the code:   *)
(* it records the ids of the documents behind key_context_data, which the  *)
(* dicts of the code do not carry.  Three more fields are bookkeeping of   *)
(* the model: model_calls counts the calls of the model endpoint, writes   *)
(* lists the store writes the request has completed, faults the store      *)
(* operations that failed under it.                                        *)
(***************************************************************************)
\* app_params of a reply: [{"question": b}]
AppParams(question) == <<[question |-> question]>>

\* server_skill is the name of the requested skill, empty when the key is absent
NoReply == [server_reply |-> <<>>, context_updates |-> <<>>,
            interaction_params |-> [relevant_for_context |-> FALSE, context_priority |-> 1, relevant_info |-> <<>>],
            app_params |-> AppParams(FALSE), server_skill |-> <<>>]

\* nothing returned yet
NoResponse == [kind |-> "none"]

IdleTurn ==
    [pc |-> "idle", user_id |-> "", user_req |-> <<>>,
     last_conversations |-> <<>>, key_context_data |-> <<>>, snapshot_ids |-> <<>>,
     entry_to_context_map |-> <<>>, gemini_reply |-> NoReply,
     update_index |-> 0, context |-> NoDoc, existing_context |-> NoDoc,
     to_delete |-> <<>>,
     patch_last |-> FALSE, last_conversation |-> NoId, conversation |-> NoDoc,
     response |-> NoResponse, model_calls |-> 0, writes |-> <<>>, faults |-> {}]

TurnIds == 1..MaxTurns

TurnsIdle == conversations = <<>> /\ turns = [t \in TurnIds |-> IdleTurn] /\ overlapped = [u \in Users |-> FALSE]

(***************************************************************************)
(* SpecRepo: the repository's methods called from outside a request (as    *)
(* AuthService._create_default_key_context calls save_user_key_context     *)
(* with priority 50), one call at a time, from an empty collection.        *)
(***************************************************************************)
RepoTexts == {TextUsersNameIsAna, TextTheUsersNameIsAna, TextUsersNameCommaIsAna, TextDot, TextComma}

\* 50 is the priority of the default entry of auth_service.py line 476
RepoSavePriorities == {2, 50}

RepoUpdatePriorities == {-1, 0, 3}

StoreEmpty == key_contexts = <<>> /\ next_id = 1 /\ clock = 0

\* a repository call that is not in progress
IdleFrame ==
    [pc |-> "idle", op |-> "none", user_id |-> "", relevant_info |-> <<>>, context_priority |-> 0,
     context_id |-> NoId, new_priority |-> 0, max_items |-> 0, context |-> NoDoc, found |-> NoId,
     to_delete |-> <<>>, removed_count |-> 0, before |-> <<>>]

FrameIds == 1..MaxInFlight

RepoIdle == calls = 0 /\ frames = [c \in FrameIds |-> IdleFrame] /\ last_call = [op |-> "none"]

BudgetIdle ==
    /\ fixed_context = <<>> /\ key_context_data = <<>> /\ context_conversations = <<>>
    /\ max_key_context_chars = 0 /\ max_conversation_chars = 0 /\ max_total_context_chars = 0
    /\ key_context_section = <<>> /\ conversation_section = <<>> /\ instruction = <<>>
    /\ built = FALSE

RepoInit == BudgetIdle /\ StoreEmpty /\ RepoIdle /\ TurnsIdle


(***************************************************************************)
(* Inputs of build_optimized_context.                                      *)
(***************************************************************************)
KeyDict(info, ts, prio) == [relevant_info |-> info, timestamp |-> ts, context_priority |-> prio]

ConvDict(input, reply, ts) == [user_input |-> input, server_reply |-> reply, timestamp |-> ts]

KeyCandidates ==
    { KeyDict(<<"l", "i", "k", "e", "s", " ", "t", "e", "a">>, 3, 80),
      KeyDict(Rep("z", 40), 2, 40),
      KeyDict(<<"y">>, 4, 40),
      KeyDict(<<"x">>, 1, 10) }

ConvCandidates ==
    { ConvDict(<<"n", "e", "w">>, <<"A", "s", "s", "i", "s", "t", "a", "n", "t", ":", " ", "H", "e", "l", "l", "o">>, 3),
      ConvDict(<<"m", "i", "d">>, Rep("w", 60), 2),
      ConvDict(<<"o", "l", "d">>, <<"o", "k">>, 1) }

FixedContexts == { <<>>, <<"F", "I", "X">>, Rep("F", 60) }

KeyCaps == {30, 70}

ConvCaps == {40, 200}

TotalCaps == {2, 100, 150}

(***************************************************************************)
(* SpecBudget: build_optimized_context applied to every input of the       *)
(* bounded sets.                                                           *)
(***************************************************************************)
BudgetInit ==
    /\ fixed_context \in FixedContexts
    /\ key_context_data \in SeqsUpTo(KeyCandidates, MaxKeys)
    /\ context_conversations \in SeqsUpTo(ConvCandidates, MaxConvs)
    /\ max_key_context_chars \in KeyCaps
    /\ max_conversation_chars \in ConvCaps
    /\ max_total_context_chars \in TotalCaps
    /\ key_context_section = <<>>
    /\ conversation_section = <<>>
    /\ instruction = <<>>
    /\ built = FALSE
    /\ StoreEmpty
    /\ RepoIdle
    /\ TurnsIdle

BuildOptimizedContext ==
    /\ ~built
    /\ LET ks == BuildKeyContextSection(key_context_data, max_key_context_chars)
           cs == BuildConversationSection(context_conversations, max_conversation_chars)
       IN  /\ key_context_section' = ks
           /\ conversation_section' = cs
           /\ instruction' = EnsureTotalLengthLimit(JoinSections(fixed_context, ks, cs), fixed_context, max_total_context_chars)
    /\ built' = TRUE
    /\ UNCHANGED <<fixed_context, key_context_data, context_conversations,
                   max_key_context_chars, max_conversation_chars, max_total_context_chars>>
    /\ UNCHANGED <<store_vars, repo_vars, turn_vars>>

NextBudget == BuildOptimizedContext

SpecBudget == BudgetInit /\ [][NextBudget]_vars

(***************************************************************************)
(* AssistantService.handle_user_request (assistant_service.py).  A request *)
(* is suspended at every await: each action below runs the code from one   *)
(* await to the next, so requests in flight interleave at those points.    *)
(***************************************************************************)
\* the request has returned: its locals are gone
DoneTurn == [IdleTurn EXCEPT !.pc = "done"]

\* the request has raised: handle_user_request logs and re-raises (lines
\* 142-144), assistant_endpoint answers with status 500.  The store writes
\* it had completed stay on record.
FailedTurn(turn, error) ==
    [IdleTurn EXCEPT !.pc = "failed", !.user_id = turn.user_id,
                     !.response = [kind |-> "error", error |-> error],
                     !.writes = turn.writes]

InFlight(t) == turns[t].pc \notin {"idle", "done", "failed"}

\* lines 136-140: ServerResponse(server_reply=..., app_params=..., skills=...)
ServerResponse(reply) == [kind |-> "response", server_reply |-> reply.server_reply, app_params |-> reply.app_params]

\* the request has returned its response
Returned(turn) == [DoneTurn EXCEPT !.response = ServerResponse(turn.gemini_reply)]

\* bookkeeping: the request has completed a write to the store
Wrote(turn, what) == [turn EXCEPT !.writes = Append(@, what)]

\* entry_to_context_map.get(entry_number): the id, or NoId (None)
MapGet(map, entry_number) == IF entry_number \in 1..Len(map) THEN map[entry_number] ELSE NoId

\* the first update at or after position i whose entry_number the map
\* resolves; the others are skipped with a warning
RECURSIVE NextUpdate(_, _)
NextUpdate(turn, i) ==
    IF i > Len(turn.gemini_reply.context_updates) THEN i
    ELSE IF MapGet(turn.entry_to_context_map, turn.gemini_reply.context_updates[i].entry_number) # NoId THEN i
    ELSE NextUpdate(turn, i + 1)

\* interaction_params.get('relevant_for_context') and interaction_params.get('relevant_info')
RelevantForContext(reply) == reply.interaction_params.relevant_for_context /\ reply.interaction_params.relevant_info # <<>>

\* where the request goes once the updates before position i are done
AfterUpdates(turn, i) ==
    LET j == NextUpdate(turn, i)
    IN  IF j <= Len(turn.gemini_reply.context_updates)
        THEN [turn EXCEPT !.pc = "update_get", !.update_index = j]
        ELSE [turn EXCEPT !.pc = IF RelevantForContext(turn.gemini_reply) THEN "find_similar" ELSE "cleanup_find",
                          !.update_index = j]

\* ' '.join(sorted(normalized.split())) of cleanup_duplicate_contexts, as the
\* bag of the words: two keys are equal exactly when the bags are
DuplicateKey(info) ==
    LET words == Split(Remove(Remove(Strip(Lower(info)), "."), ","))
    IN  [w \in ToSet(words) |-> Cardinality({i \in 1..Len(words) : words[i] = w})]

\* the documents cleanup_duplicate_contexts deletes, in its order: group by
\* group in order of first appearance, each group without its first document
RECURSIVE DuplicateDeletes(_, _)
DuplicateDeletes(contexts, i) ==
    IF i > Len(contexts) THEN <<>>
    ELSE LET first == \A j \in 1..(i - 1) : DuplicateKey(contexts[j].relevant_info) # DuplicateKey(contexts[i].relevant_info)
             rest == SelectSeq(SubSeq(contexts, i + 1, Len(contexts)),
                               LAMBDA e : DuplicateKey(e.relevant_info) = DuplicateKey(contexts[i].relevant_info))
         IN  (IF first THEN rest ELSE <<>>) \o DuplicateDeletes(contexts, i + 1)

\* .sort("-updated_at")
\* the sort, were it by "updated_at" ascending
InsertByUpdate_OldestFirst(sorted, x) ==
    LET k == Cardinality({i \in 1..Len(sorted) : sorted[i].updated_at <= x.updated_at})
    IN  SubSeq(sorted, 1, k) \o <<x>> \o SubSeq(sorted, k + 1, Len(sorted))

InsertByUpdate(sorted, x) ==
    LET k == Cardinality({i \in 1..Len(sorted) : sorted[i].updated_at >= x.updated_at})
    IN  SubSeq(sorted, 1, k) \o <<x>> \o SubSeq(sorted, k + 1, Len(sorted))

RECURSIVE SortByUpdateFrom(_, _)
SortByUpdateFrom(rest, acc) == IF rest = <<>> THEN acc ELSE SortByUpdateFrom(Tail(rest), InsertByUpdate(acc, Head(rest)))

Ids(docs) == [i \in 1..Len(docs) |-> docs[i].id]

(***************************************************************************)
(* KeyContextRepository called directly.  A call runs in a frame; each     *)
(* action runs the code from one await to the next, so that calls in       *)
(* progress together interleave at the awaits.  The action named after the *)
(* method runs it up to and including its first database operation.        *)
(***************************************************************************)
\* a call may begin in frame c: fewer than limit calls are in progress
MayCall(c, limit) ==
    /\ calls < MaxCalls
    /\ frames[c].pc = "idle"
    /\ \A d \in FrameIds : d < c => frames[d].pc # "idle"
    /\ Cardinality({d \in FrameIds : frames[d].pc # "idle"}) < limit

\* save_user_key_context, lines 33-58: existing_context = await
\* _find_similar_context(...); the document to write is made ready
\* (priority raised, utc_now() read) and the call waits for save() or create()
SaveUserKeyContext(c, user_id, relevant_info, context_priority, limit) ==
    /\ MayCall(c, limit)
    /\ LET existing == FindSimilarContext(key_contexts, user_id, relevant_info)
       IN  /\ frames' = [frames EXCEPT ![c] =
                  [IdleFrame EXCEPT !.pc = "save_write", !.op = "save", !.user_id = user_id,
                                    !.relevant_info = relevant_info, !.context_priority = context_priority,
                                    !.found = existing.id, !.before = key_contexts,
                                    !.context = IF existing.id # NoId
                                                THEN MergedDoc(existing, context_priority, clock + 1)
                                                ELSE KeyContextDoc(NoId, user_id, relevant_info, context_priority, clock + 1, clock + 2)]]
           /\ clock' = IF existing.id # NoId THEN clock + 1 ELSE clock + 2
    /\ calls' = calls + 1
    /\ last_call' = [op |-> "none"]
    /\ UNCHANGED <<key_contexts, next_id, budget_vars, turn_vars>>

\* save_user_key_context, line 41/46: await existing_context.save(), or
\* line 59: await context.create(); the call returns
SaveUserKeyContextWrite(c) ==
    /\ frames[c].pc = "save_write"
    /\ IF frames[c].context.id # NoId
       THEN /\ key_contexts' = SaveDoc(key_contexts, frames[c].context)
            /\ next_id' = next_id
       ELSE /\ key_contexts' = Append(key_contexts, [frames[c].context EXCEPT !.id = next_id])
            /\ next_id' = next_id + 1
    /\ last_call' = [op |-> "save", user_id |-> frames[c].user_id, relevant_info |-> frames[c].relevant_info,
                     context_priority |-> frames[c].context_priority, before |-> frames[c].before,
                     found |-> frames[c].found]
    /\ frames' = [frames EXCEPT ![c] = IdleFrame]
    /\ UNCHANGED <<clock, calls, budget_vars, turn_vars>>

\* update_key_context_priority, lines 141-144: context = await
\* KeyContext.get(context_id); a document of another user or none returns
\* False, else the priority and utc_now() are set and the call waits for save()
UpdateKeyContextPriority(c, user_id, context_id, new_priority, limit) ==
    /\ MayCall(c, limit)
    /\ LET context == GetDoc(key_contexts, context_id)
           ok == context.id # NoId /\ context.user_id = user_id
       IN  IF ok
           THEN /\ frames' = [frames EXCEPT ![c] =
                       [IdleFrame EXCEPT !.pc = "update_write", !.op = "update", !.user_id = user_id,
                                         !.context_id = context_id, !.new_priority = new_priority,
                                         !.before = key_contexts,
                                         !.context = [context EXCEPT !.context_priority = new_priority,
                                                                     !.updated_at = clock + 1]]]
                /\ clock' = clock + 1
                /\ last_call' = [op |-> "none"]
           ELSE /\ last_call' = [op |-> "update", user_id |-> user_id, context_id |-> context_id,
                                 new_priority |-> new_priority, before |-> key_contexts, found |-> FALSE]
                /\ UNCHANGED <<frames, clock>>
    /\ calls' = calls + 1
    /\ UNCHANGED <<key_contexts, next_id, budget_vars, turn_vars>>

\* update_key_context_priority, lines 145-147: await context.save(); True
UpdateKeyContextPriorityWrite(c) ==
    /\ frames[c].pc = "update_write"
    /\ key_contexts' = SaveDoc(key_contexts, frames[c].context)
    /\ last_call' = [op |-> "update", user_id |-> frames[c].user_id, context_id |-> frames[c].context_id,
                     new_priority |-> frames[c].new_priority, before |-> frames[c].before, found |-> TRUE]
    /\ frames' = [frames EXCEPT ![c] = IdleFrame]
    /\ UNCHANGED <<next_id, clock, calls, budget_vars, turn_vars>>

\* delete_low_priority_contexts, lines 155-158: one await, the bulk delete
\* of the user's priority-0 documents
DeleteLowPriorityContexts(c, user_id, limit) ==
    /\ MayCall(c, limit)
    /\ key_contexts' = SelectSeq(key_contexts, LAMBDA e : ~(e.user_id = user_id /\ e.context_priority = 0))
    /\ last_call' = [op |-> "delete_low", user_id |-> user_id, before |-> key_contexts]
    /\ calls' = calls + 1
    /\ UNCHANGED <<frames, next_id, clock, budget_vars, turn_vars>>

\* the values of max_items the calls draw from: below the number of entries
\* a user can hold here, and the default of line 164
CleanupMaxItems == {1, 10}

\* the call returns from the find when there is nothing to delete
AfterCleanupFind(c, user_id, max_items, to_delete) ==
    IF to_delete = <<>>
    THEN /\ last_call' = [op |-> "cleanup", user_id |-> user_id, max_items |-> max_items, before |-> key_contexts]
         /\ frames' = frames
    ELSE /\ last_call' = [op |-> "none"]
         /\ frames' = [frames EXCEPT ![c] =
                [IdleFrame EXCEPT !.pc = "cleanup_delete", !.op = "cleanup", !.user_id = user_id,
                                  !.max_items = max_items, !.to_delete = to_delete, !.before = key_contexts]]

\* cleanup_old_contexts, were it to cut the user's active documents down to
\* max_items as well
CleanupOldContexts_TrimToCap(c, user_id, max_items, limit) ==
    /\ MayCall(c, limit)
    /\ AfterCleanupFind(c, user_id, max_items,
          Ids(SelectSeq(key_contexts,
                 LAMBDA e : /\ e.user_id = user_id
                            /\ \/ e.context_priority = 0
                               \/ Cardinality({i \in 1..Len(key_contexts) :
                                      /\ key_contexts[i].user_id = user_id /\ key_contexts[i].context_priority > 0
                                      /\ key_contexts[i].id <= e.id}) > max_items)))
    /\ calls' = calls + 1
    /\ UNCHANGED <<store_vars, budget_vars, turn_vars>>

\* cleanup_old_contexts, lines 168-173: zero_priority_contexts = await
\* find(user_id, context_priority == 0).to_list(), whatever max_items is
CleanupOldContexts(c, user_id, max_items, limit) ==
    /\ MayCall(c, limit)
    /\ AfterCleanupFind(c, user_id, max_items,
          Ids(SelectSeq(key_contexts, LAMBDA e : e.user_id = user_id /\ e.context_priority = 0)))
    /\ calls' = calls + 1
    /\ UNCHANGED <<store_vars, budget_vars, turn_vars>>

\* cleanup_old_contexts, lines 174-175: await context.delete() for the next
\* document found; after the last one the call returns
CleanupOldContextsDelete(c) ==
    /\ frames[c].pc = "cleanup_delete"
    /\ key_contexts' = DeleteDoc(key_contexts, Head(frames[c].to_delete))
    /\ IF Len(frames[c].to_delete) = 1
       THEN /\ last_call' = [op |-> "cleanup", user_id |-> frames[c].user_id, max_items |-> frames[c].max_items,
                             before |-> frames[c].before]
            /\ frames' = [frames EXCEPT ![c] = IdleFrame]
       ELSE /\ last_call' = last_call
            /\ frames' = [frames EXCEPT ![c].to_delete = Tail(@)]
    /\ UNCHANGED <<next_id, clock, calls, budget_vars, turn_vars>>

\* cleanup_duplicate_contexts, lines 103-123: all_contexts = await
\* find(user_id, context_priority > 0).sort("-updated_at").to_list(); the
\* documents are grouped by the sorted words and contexts[1:] of each group
\* are to be deleted; with none the call returns 0
CleanupDuplicateContexts(c, user_id, limit) ==
    /\ MayCall(c, limit)
    /\ LET all_contexts == SortByUpdateFrom(ActiveContexts(key_contexts, user_id), <<>>)
           duplicates == Ids(DuplicateDeletes(all_contexts, 1))
       IN  IF duplicates = <<>>
           THEN /\ last_call' = [op |-> "sweep", user_id |-> user_id, before |-> key_contexts, removed_count |-> 0]
                /\ frames' = frames
           ELSE /\ last_call' = [op |-> "none"]
                /\ frames' = [frames EXCEPT ![c] =
                       [IdleFrame EXCEPT !.pc = "sweep_delete", !.op = "sweep", !.user_id = user_id,
                                         !.to_delete = duplicates, !.before = key_contexts]]
    /\ calls' = calls + 1
    /\ UNCHANGED <<store_vars, budget_vars, turn_vars>>

\* cleanup_duplicate_contexts, lines 126-132: await
\* duplicate_context.delete(); removed_count += 1; after the last one the
\* call returns removed_count
CleanupDuplicateContextsDelete(c) ==
    /\ frames[c].pc = "sweep_delete"
    /\ key_contexts' = DeleteDoc(key_contexts, Head(frames[c].to_delete))
    /\ IF Len(frames[c].to_delete) = 1
       THEN /\ last_call' = [op |-> "sweep", user_id |-> frames[c].user_id, before |-> frames[c].before,
                             removed_count |-> frames[c].removed_count + 1]
            /\ frames' = [frames EXCEPT ![c] = IdleFrame]
       ELSE /\ last_call' = last_call
            /\ frames' = [frames EXCEPT ![c].to_delete = Tail(@), ![c].removed_count = @ + 1]
    /\ UNCHANGED <<next_id, clock, calls, budget_vars, turn_vars>>

\* the repository called from outside a request, one call at a time
NextRepo ==
    \E c \in FrameIds :
       \/ \E u \in Users, t \in RepoTexts, p \in RepoSavePriorities : SaveUserKeyContext(c, u, t, p, 1)
       \/ SaveUserKeyContextWrite(c)
       \/ \E u \in Users, id \in 1..(next_id - 1), p \in RepoUpdatePriorities : UpdateKeyContextPriority(c, u, id, p, 1)
       \/ UpdateKeyContextPriorityWrite(c)
       \/ \E u \in Users : DeleteLowPriorityContexts(c, u, 1)
       \/ \E u \in Users, max_items \in CleanupMaxItems : CleanupOldContexts(c, u, max_items, 1)
       \/ CleanupOldContextsDelete(c)

SpecRepo == RepoInit /\ [][NextRepo]_vars

\* the same calls, and the duplicate sweep, with up to MaxInFlight of them in
\* progress together: the event loop may run another call at every await
NextRepoOverlap ==
    \E c \in FrameIds :
       \/ \E u \in Users, t \in RepoTexts, p \in RepoSavePriorities : SaveUserKeyContext(c, u, t, p, MaxInFlight)
       \/ SaveUserKeyContextWrite(c)
       \/ \E u \in Users, id \in 1..(next_id - 1), p \in RepoUpdatePriorities : UpdateKeyContextPriority(c, u, id, p, MaxInFlight)
       \/ UpdateKeyContextPriorityWrite(c)
       \/ \E u \in Users : DeleteLowPriorityContexts(c, u, MaxInFlight)
       \/ \E u \in Users, max_items \in CleanupMaxItems : CleanupOldContexts(c, u, max_items, MaxInFlight)
       \/ CleanupOldContextsDelete(c)
       \/ \E u \in Users : CleanupDuplicateContexts(c, u, MaxInFlight)
       \/ CleanupDuplicateContextsDelete(c)

SpecRepoOverlap == RepoInit /\ [][NextRepoOverlap]_vars

\* the stores the sweep is called on: up to MaxKeys documents, updated in
\* any order; those of u1 active or marked for deletion, two of the texts
\* differing in case and punctuation only, those of u2 all alike
SweepTexts == {TextUsersNameIsAna, TextUsersNameCommaIsAna, TextTheUsersNameIsAna}

SweepPriorities == {0, 2}

SweepEntries ==
    { [user_id |-> "u1", relevant_info |-> x, context_priority |-> p] : x \in SweepTexts, p \in SweepPriorities }
       \cup { [user_id |-> "u2", relevant_info |-> TextUsersNameIsAna, context_priority |-> 2] }

UpdateOrders(n) == {f \in [1..n -> 1..n] : \A i, j \in 1..n : i # j => f[i] # f[j]}

SweepStores(n) ==
    { [i \in 1..n |-> KeyContextDoc(i, e[i].user_id, e[i].relevant_info, e[i].context_priority, i, n + up[i])] :
         e \in [1..n -> SweepEntries], up \in UpdateOrders(n) }

SweepInit ==
    /\ BudgetIdle /\ RepoIdle /\ TurnsIdle
    /\ \E n \in 0..MaxKeys : key_contexts \in SweepStores(n)
    /\ next_id = Len(key_contexts) + 1
    /\ clock = 2 * Len(key_contexts)

\* one sweep of each store, for either user
NextSweep ==
    \E c \in FrameIds :
       \/ calls = 0 /\ \E u \in Users : CleanupDuplicateContexts(c, u, 1)
       \/ CleanupDuplicateContextsDelete(c)

SpecSweep == SweepInit /\ [][NextSweep]_vars

\* the request text and the replies of the model the requests draw from
UserRequests == { <<"h", "i">> }

\* the one server skill get_gemini_response knows (line 51)
GoogleSearchSkill ==
    <<"G", "o", "o", "g", "l", "e", "S", "e", "a", "r", "c", "h", "S", "k", "i", "l", "l">>

TurnUsers == {"u1"}

ReplyTexts == {TextUsersNameIsAna, TextTheUsersNameIsAna}

ReplyEntryNumbers == {1, 2}

ReplyNewPriorities == {-1, 0, 5}

ReplyFactPriorities == {2}

ReplyUpdates == { <<>> } \cup { <<[entry_number |-> k, new_priority |-> p]>> : k \in ReplyEntryNumbers, p \in ReplyNewPriorities }

NoFact == [relevant_for_context |-> FALSE, context_priority |-> 1, relevant_info |-> <<>>]

Fact(relevant_info, context_priority) == [relevant_for_context |-> TRUE, context_priority |-> context_priority, relevant_info |-> relevant_info]

Reply(context_updates, interaction_params) ==
    [server_reply |-> <<"o", "k">>, context_updates |-> context_updates, interaction_params |-> interaction_params,
     app_params |-> AppParams(FALSE), server_skill |-> <<>>]

ReplyParams == { NoFact } \cup { Fact(x, p) : x \in ReplyTexts, p \in ReplyFactPriorities }

Replies == { Reply(u, ip) : u \in ReplyUpdates, ip \in ReplyParams }

\* the replies of requests that run side by side
OverlapReplies ==
    { Reply(<<>>, Fact(TextUsersNameIsAna, 2)), Reply(<<>>, Fact(TextTheUsersNameIsAna, 2)),
      Reply(<<[entry_number |-> 1, new_priority |-> 0]>>, NoFact), Reply(<<[entry_number |-> 1, new_priority |-> 5]>>, NoFact) }

(***************************************************************************)
(* GeminiService (gemini_service.py): what _generate_response makes of the *)
(* text the model streamed back.  json.loads is modelled on the texts the  *)
(* requests draw from: the JSON text of a reply dict (ToJson) loads to     *)
(* that dict, "[]" loads to a list, every other text of RawTexts and       *)
(* SearchTexts is no JSON and raises JSONDecodeError.                      *)
(***************************************************************************)
ApologyText ==
    <<"I", " ", "a", "p", "o", "l", "o", "g", "i", "z", "e", ",", " ", "b", "u", "t", " ", "I",
      "'", "m", " ", "h", "a", "v", "i", "n", "g", " ", "t", "r", "o", "u", "b", "l", "e", " ",
      "p", "r", "o", "c", "e", "s", "s", "i", "n", "g", " ", "y", "o", "u", "r", " ", "r", "e",
      "q", "u", "e", "s", "t", " ", "r", "i", "g", "h", "t", " ", "n", "o", "w", ".", " ", "P",
      "l", "e", "a", "s", "e", " ", "t", "r", "y", " ", "a", "g", "a", "i", "n", ".">>

SystemErrorInfo ==
    <<"S", "y", "s", "t", "e", "m", " ", "e", "r", "r", "o", "r", " ", "o", "c", "c", "u", "r",
      "r", "e", "d", " ", "d", "u", "r", "i", "n", "g", " ", "r", "e", "s", "p", "o", "n", "s",
      "e", " ", "p", "r", "o", "c", "e", "s", "s", "i", "n", "g">>

JsonErrorInfo ==
    <<"J", "S", "O", "N", " ", "p", "a", "r", "s", "i", "n", "g", " ", "e", "r", "r", "o", "r",
      " ", "o", "c", "c", "u", "r", "r", "e", "d", " ", "d", "u", "r", "i", "n", "g", " ", "r",
      "e", "s", "p", "o", "n", "s", "e", " ", "p", "r", "o", "c", "e", "s", "s", "i", "n", "g">>

SearchResultsInfo ==
    <<"T", "h", "e", " ", "u", "s", "e", "r", " ", "r", "e", "q", "u", "e", "s", "t", "e", "d",
      " ", "c", "u", "r", "r", "e", "n", "t", " ", "i", "n", "f", "o", "r", "m", "a", "t", "i",
      "o", "n", " ", "a", "n", "d", " ", "r", "e", "c", "e", "i", "v", "e", "d", " ", "s", "e",
      "a", "r", "c", "h", " ", "r", "e", "s", "u", "l", "t", "s", ".">>

\* the fallback, were it flagged as relevant for the context
EmptyFallback_Relevant ==
    [server_reply |-> ApologyText, context_updates |-> <<>>,
     interaction_params |-> [relevant_for_context |-> TRUE, context_priority |-> 1, relevant_info |-> SystemErrorInfo],
     app_params |-> AppParams(FALSE), server_skill |-> <<>>]

\* lines 139-147: the fallback for an empty response
EmptyFallback ==
    [server_reply |-> ApologyText, context_updates |-> <<>>,
     interaction_params |-> [relevant_for_context |-> FALSE, context_priority |-> 1, relevant_info |-> SystemErrorInfo],
     app_params |-> AppParams(FALSE), server_skill |-> <<>>]

\* lines 178-186: the fallback for a response that is no JSON
JsonFallback ==
    [server_reply |-> ApologyText, context_updates |-> <<>>,
     interaction_params |-> [relevant_for_context |-> FALSE, context_priority |-> 1, relevant_info |-> JsonErrorInfo],
     app_params |-> AppParams(FALSE), server_skill |-> <<>>]

\* lines 159-167: the structured response made from plain search text
SearchReply(text) ==
    [server_reply |-> text, context_updates |-> <<>>,
     interaction_params |-> [relevant_for_context |-> TRUE, context_priority |-> 10, relevant_info |-> SearchResultsInfo],
     app_params |-> AppParams(FALSE), server_skill |-> <<>>]

\* a reply that requests a server skill
WithSkill(reply, name) == [reply EXCEPT !.server_skill = name]

UnknownSkill ==
    <<"W", "e", "a", "t", "h", "e", "r", "S", "k", "i", "l", "l">>

\* the reply dicts the model answers with when requests are followed through
\* the gateway
GatewayReplies ==
    { Reply(<<>>, Fact(TextUsersNameIsAna, 2)),
      Reply(<<[entry_number |-> 1, new_priority |-> 0]>>, Fact(TextUsersNameIsAna, 2)),
      Reply(<<[entry_number |-> 1, new_priority |-> -1]>>, Fact(TextUsersNameIsAna, 2)),
      Reply(<<[entry_number |-> 2, new_priority |-> 5]>>, NoFact),
      WithSkill(Reply(<<>>, NoFact), GoogleSearchSkill),
      WithSkill(Reply(<<>>, NoFact), UnknownSkill),
      WithSkill(Reply(<<>>, Fact(TextUsersNameIsAna, 2)), UnknownSkill) }

\* json.dumps of a reply dict, piece by piece
JsonBool(b) == IF b THEN <<"t", "r", "u", "e">> ELSE <<"f", "a", "l", "s", "e">>

RECURSIVE JsonUpdates(_, _)
JsonUpdates(updates, i) ==
    IF i > Len(updates) THEN <<>>
    ELSE (IF i > 1 THEN <<",", " ">> ELSE <<>>)
           \o <<"{", "\"", "e", "n", "t", "r", "y", "_", "n", "u", "m", "b", "e", "r", "\"", ":", " ">> \o IntToStr(updates[i].entry_number)
           \o <<",", " ", "\"", "n", "e", "w", "_", "p", "r", "i", "o", "r", "i", "t", "y", "\"", ":", " ">> \o IntToStr(updates[i].new_priority) \o <<"}">>
           \o JsonUpdates(updates, i + 1)

ToJson(reply) ==
    <<"{", "\"", "s", "e", "r", "v", "e", "r", "_", "r", "e", "p", "l", "y", "\"", ":", " ", "\"">> \o reply.server_reply
      \o <<"\"", ",", " ", "\"", "a", "p", "p", "_", "p", "a", "r", "a", "m", "s", "\"", ":", " ", "[", "{", "\"", "q", "u", "e", "s", "t", "i", "o", "n", "\"", ":", " ">> \o JsonBool(reply.app_params[1].question)
      \o <<"}", "]", ",", " ", "\"", "i", "n", "t", "e", "r", "a", "c", "t", "i", "o", "n", "_", "p", "a", "r", "a", "m", "s", "\"", ":", " ", "{", "\"", "r", "e", "l", "e", "v", "a", "n", "t", "_", "f", "o", "r", "_", "c", "o", "n", "t", "e", "x", "t", "\"", ":", " ">>
      \o JsonBool(reply.interaction_params.relevant_for_context)
      \o <<",", " ", "\"", "c", "o", "n", "t", "e", "x", "t", "_", "p", "r", "i", "o", "r", "i", "t", "y", "\"", ":", " ">> \o IntToStr(reply.interaction_params.context_priority)
      \o <<",", " ", "\"", "r", "e", "l", "e", "v", "a", "n", "t", "_", "i", "n", "f", "o", "\"", ":", " ", "\"">> \o reply.interaction_params.relevant_info
      \o <<"\"", "}", ",", " ", "\"", "c", "o", "n", "t", "e", "x", "t", "_", "u", "p", "d", "a", "t", "e", "s", "\"", ":", " ", "[">> \o JsonUpdates(reply.context_updates, 1) \o <<"]">>
      \o (IF reply.server_skill = <<>> THEN <<>>
          ELSE <<",", " ", "\"", "s", "e", "r", "v", "e", "r", "_", "s", "k", "i", "l", "l", "\"", ":", " ", "{", "\"", "n", "a", "m", "e", "\"", ":", " ", "\"">> \o reply.server_skill \o <<"\"", "}">>)
      \o <<"}">>

\* the texts the model streams back to a first (structured) call: empty,
\* blank, cut off in the middle, a JSON list, and the JSON of a reply dict
TextBlank == <<" ", "\n">>

TextCutOff ==
    <<"{", "\"", "s", "e", "r", "v", "e", "r", "_", "r", "e", "p", "l", "y", "\"", ":", " ",
      "\"", "o", "k">>

TextJsonList == <<"[", "]">>

RawTexts == { <<>>, TextBlank, TextCutOff, TextJsonList } \cup { ToJson(r) : r \in GatewayReplies }

\* the texts streamed back to the second call (Google Search enabled): plain
\* text, plain text that ends in a question mark, blank, braces around no
\* JSON, and text that carries the JSON of a reply asking for the skill again
TextSunny ==
    <<"I", "t", " ", "i", "s", " ", "s", "u", "n", "n", "y", ".">>

TextMore ==
    <<"S", "h", "a", "l", "l", " ", "I", " ", "s", "e", "a", "r", "c", "h", " ", "m", "o", "r",
      "e", "?">>

TextBraces ==
    <<"{", "o", "o", "p", "s", "}">>

TextResultPrefix ==
    <<"R", "e", "s", "u", "l", "t", ":", " ">>

SearchTexts ==
    { TextSunny, TextMore, TextBlank, TextBraces,
      TextResultPrefix \o ToJson(WithSkill(Reply(<<>>, NoFact), GoogleSearchSkill)) }

\* the JSON objects json.loads is modelled on, each with its dict
JsonObjects == { [text |-> ToJson(r), value |-> r] : r \in Replies \cup GatewayReplies }

\* json.loads(text)
JsonLoads(text) ==
    IF \E o \in JsonObjects : o.text = text
    THEN [kind |-> "dict", value |-> (CHOOSE o \in JsonObjects : o.text = text).value]
    ELSE IF text = TextJsonList THEN [kind |-> "list"]
    ELSE [kind |-> "JSONDecodeError"]

\* re.search(r'\{.*\}', response_text, re.DOTALL): from the first "{" to the
\* last "}" after it, empty when there is no match
JsonPart(text) ==
    LET opens == {i \in 1..Len(text) : text[i] = "{"}
        first == CHOOSE i \in opens : \A j \in opens : i <= j
        closes == {i \in 1..Len(text) : text[i] = "}" /\ i > first}
        last == CHOOSE i \in closes : \A j \in closes : j <= i
    IN  IF opens = {} THEN <<>>
        ELSE IF closes = {} THEN <<>>
        ELSE SubSeq(text, first, last)

\* _generate_response, lines 136-188, applied to the streamed response_text:
\* the value it returns
GenerateResponse(response_text, use_google_search) ==
    IF Strip(response_text) = <<>> THEN [kind |-> "dict", value |-> EmptyFallback]
    ELSE IF use_google_search /\ JsonPart(response_text) = <<>>
         THEN [kind |-> "dict", value |-> SearchReply(Strip(response_text))]
    ELSE LET loaded == JsonLoads(IF use_google_search THEN JsonPart(response_text) ELSE response_text)
         IN  IF loaded.kind = "JSONDecodeError" THEN [kind |-> "dict", value |-> JsonFallback]
             ELSE loaded

\* a request arrives (assistant_endpoint calls handle_user_request)
StartTurn(t, user_id, user_req, limit) ==
    /\ turns[t].pc = "idle"
    /\ t > 1 => turns[t - 1].pc # "idle"
    /\ Cardinality({x \in TurnIds : InFlight(x)}) < limit
    /\ turns' = [turns EXCEPT ![t] = [IdleTurn EXCEPT !.pc = "get_conversations", !.user_id = user_id, !.user_req = user_req]]
    /\ overlapped' = [overlapped EXCEPT ![user_id] = @ \/ \E x \in TurnIds : InFlight(x) /\ turns[x].user_id = user_id]
    /\ UNCHANGED <<conversations, store_vars, repo_vars, budget_vars>>

\* line 40: last_conversations = await get_optimized_conversations(user_id)
GetConversations(t) ==
    /\ turns[t].pc = "get_conversations"
    /\ turns' = [turns EXCEPT ![t].pc = "get_key_contexts",
                              ![t].last_conversations = GetOptimizedConversations(conversations, turns[t].user_id, DefaultConversationMaxChars)]
    /\ UNCHANGED <<conversations, overlapped, store_vars, repo_vars, budget_vars>>

\* line 43: key_context_data = await get_optimized_key_contexts(user_id)
GetKeyContexts(t) ==
    /\ turns[t].pc = "get_key_contexts"
    /\ LET data == GetOptimizedKeyContexts(key_contexts, turns[t].user_id, DefaultKeyContextMaxChars, DefaultMinPriority)
       IN  turns' = [turns EXCEPT ![t].pc = "get_map",
                                  ![t].key_context_data = data,
                                  ![t].snapshot_ids = SubSeq(Ids(OptimizedKeyQuery(key_contexts, turns[t].user_id, DefaultMinPriority)), 1, Len(data))]
    /\ UNCHANGED <<conversations, overlapped, store_vars, repo_vars, budget_vars>>

\* lines 46-47: key_contexts_full = await get_user_key_contexts(user_id);
\* entry_to_context_map = {idx + 1: str(context.id)}
GetContextMap(t) ==
    /\ turns[t].pc = "get_map"
    /\ turns' = [turns EXCEPT ![t].pc = "gemini",
                              ![t].entry_to_context_map = Ids(GetUserKeyContexts(key_contexts, turns[t].user_id, DefaultKeyContextLimit))]
    /\ UNCHANGED <<conversations, overlapped, store_vars, repo_vars, budget_vars>>

\* handle_user_request, lines 71 and 84, and save_conversation, lines 55-61:
\* with its reply a patch request goes on to read the last conversation; a
\* normal request builds the Conversation document, timestamp=utc_now()
\* included, and waits for create()
WithReply(turn, reply, pc) ==
    [turn EXCEPT !.gemini_reply = reply,
                 !.model_calls = @ + 1,
                 !.pc = pc,
                 !.conversation = IF pc = "save_conversation"
                                  THEN ConversationDoc(NoId, turn.user_id, turn.user_req, reply.server_reply,
                                                       reply.interaction_params, clock + 1)
                                  ELSE @]

AfterReply(turn) == IF turn.patch_last THEN "patch_find" ELSE "save_conversation"

\* get_gemini_response, were the reply of every call inspected for a skill
AfterModelCall_Reinspect(turn, reply, use_google_search) ==
    WithReply(turn, reply, IF reply.server_skill = GoogleSearchSkill THEN "gemini_search" ELSE AfterReply(turn))

\* get_gemini_response, were every requested skill answered by a second call
AfterModelCall_AnySkill(turn, reply, use_google_search) ==
    WithReply(turn, reply, IF ~use_google_search /\ reply.server_skill # <<>> THEN "gemini_search" ELSE AfterReply(turn))

\* get_gemini_response, lines 44-59, and handle_user_request, lines 50, 71
\* and 84: where the request goes with the dict a model call returned.  Only
\* the reply of the first call (use_google_search false) is inspected for a
\* server skill.
AfterModelCall(turn, reply, use_google_search) ==
    WithReply(turn, reply, IF ~use_google_search /\ reply.server_skill = GoogleSearchSkill THEN "gemini_search" ELSE AfterReply(turn))

\* utc_now() of save_conversation, line 60, is read in the step that ends
\* at the await of create()
ClockAfterReply(t) == IF turns'[t].pc = "save_conversation" THEN clock + 1 ELSE clock

\* lines 62-68 and 75-81: gemini_reply = await get_gemini_response(...); the
\* first call of _generate_response returns the dict reply
GetGeminiResponse(t, reply) ==
    /\ turns[t].pc = "gemini"
    /\ turns' = [turns EXCEPT ![t] = AfterModelCall(turns[t], reply, FALSE)]
    /\ clock' = ClockAfterReply(t)
    /\ UNCHANGED <<key_contexts, next_id, conversations, overlapped, repo_vars, budget_vars>>

\* lines 84-89 and save_conversation, line 62: await conversation.create()
\* stores the document built before the await; then the walk over
\* context_updates starts (lines 93-101)
SaveConversation(t) ==
    /\ turns[t].pc = "save_conversation"
    /\ conversations' = Append(conversations, [turns[t].conversation EXCEPT !.id = next_id])
    /\ next_id' = next_id + 1
    /\ turns' = [turns EXCEPT ![t] = [AfterUpdates(Wrote(turns[t], "conversation"), 1) EXCEPT !.conversation = NoDoc]]
    /\ UNCHANGED <<key_contexts, clock, overlapped, repo_vars, budget_vars>>

\* update_key_context_priority, lines 141-144: context = await KeyContext.get(id);
\* if it is the user's, its priority and timestamp are set in memory
UpdateGet(t) ==
    /\ turns[t].pc = "update_get"
    /\ LET update == turns[t].gemini_reply.context_updates[turns[t].update_index]
           context == GetDoc(key_contexts, MapGet(turns[t].entry_to_context_map, update.entry_number))
       IN  IF context.id # NoId /\ context.user_id = turns[t].user_id
           THEN /\ turns' = [turns EXCEPT ![t].pc = "update_save",
                                          ![t].context = [context EXCEPT !.context_priority = update.new_priority, !.updated_at = clock + 1]]
                /\ clock' = clock + 1
           ELSE /\ turns' = [turns EXCEPT ![t] = AfterUpdates(turns[t], turns[t].update_index + 1)]
                /\ clock' = clock
    /\ UNCHANGED <<key_contexts, next_id, conversations, overlapped, repo_vars, budget_vars>>

\* update_key_context_priority, line 145: await context.save()
UpdateSave(t) ==
    /\ turns[t].pc = "update_save"
    /\ key_contexts' = SaveDoc(key_contexts, turns[t].context)
    /\ turns' = [turns EXCEPT ![t] = [AfterUpdates(Wrote(turns[t], "priority"), turns[t].update_index + 1) EXCEPT !.context = NoDoc]]
    /\ UNCHANGED <<next_id, clock, conversations, overlapped, repo_vars, budget_vars>>

\* save_user_key_context, lines 34-58: existing_context = await
\* _find_similar_context(...); the document to write is prepared in memory
FindSimilar(t) ==
    /\ turns[t].pc = "find_similar"
    /\ LET ip == turns[t].gemini_reply.interaction_params
           existing == FindSimilarContext(key_contexts, turns[t].user_id, ip.relevant_info)
       IN  IF existing.id # NoId
           THEN /\ turns' = [turns EXCEPT ![t].pc = "save_context",
                                          ![t].existing_context = MergedDoc(existing, ip.context_priority, clock + 1)]
                /\ clock' = clock + 1
           ELSE /\ turns' = [turns EXCEPT ![t].pc = "save_context",
                                          ![t].existing_context = KeyContextDoc(NoId, turns[t].user_id, ip.relevant_info, ip.context_priority, clock + 1, clock + 2)]
                /\ clock' = clock + 2
    /\ UNCHANGED <<key_contexts, next_id, conversations, overlapped, repo_vars, budget_vars>>

\* save_user_key_context, were the duplicate check repeated at the write
SaveContext_Recheck(t) ==
    /\ turns[t].pc = "save_context"
    /\ LET found == FindSimilarContext(key_contexts, turns[t].user_id, turns[t].existing_context.relevant_info)
       IN  IF turns[t].existing_context.id # NoId
           THEN /\ key_contexts' = SaveDoc(key_contexts, turns[t].existing_context)
                /\ next_id' = next_id
           ELSE IF found.id # NoId
           THEN /\ key_contexts' = SaveDoc(key_contexts, MergedDoc(found, turns[t].existing_context.context_priority, clock))
                /\ next_id' = next_id
           ELSE /\ key_contexts' = Append(key_contexts, [turns[t].existing_context EXCEPT !.id = next_id])
                /\ next_id' = next_id + 1
    /\ turns' = [turns EXCEPT ![t] = [Wrote(turns[t], "fact") EXCEPT !.pc = "cleanup_find", !.existing_context = NoDoc]]
    /\ UNCHANGED <<clock, conversations, overlapped, repo_vars, budget_vars>>

\* save_user_key_context, line 41/46: await existing_context.save(), or
\* line 59: await context.create()
SaveContext(t) ==
    /\ turns[t].pc = "save_context"
    /\ IF turns[t].existing_context.id # NoId
       THEN /\ key_contexts' = SaveDoc(key_contexts, turns[t].existing_context)
            /\ next_id' = next_id
       ELSE /\ key_contexts' = Append(key_contexts, [turns[t].existing_context EXCEPT !.id = next_id])
            /\ next_id' = next_id + 1
    /\ turns' = [turns EXCEPT ![t] = [Wrote(turns[t], "fact") EXCEPT !.pc = "cleanup_find", !.existing_context = NoDoc]]
    /\ UNCHANGED <<clock, conversations, overlapped, repo_vars, budget_vars>>

\* cleanup_old_contexts, were it to find nothing to delete
CleanupFind_Nothing(t) ==
    /\ turns[t].pc = "cleanup_find"
    /\ turns' = [turns EXCEPT ![t].pc = "random", ![t].to_delete = <<>>]
    /\ UNCHANGED <<conversations, overlapped, store_vars, repo_vars, budget_vars>>

\* cleanup_old_contexts, lines 168-171: the user's documents of priority 0
\* cleanup_old_contexts, were it to delete every inactive document
CleanupFind_Nonpositive(t) ==
    /\ turns[t].pc = "cleanup_find"
    /\ LET zero == Ids(SelectSeq(key_contexts, LAMBDA e : e.user_id = turns[t].user_id /\ e.context_priority <= 0))
       IN  turns' = [turns EXCEPT ![t].pc = IF zero = <<>> THEN "random" ELSE "cleanup_delete",
                                  ![t].to_delete = zero]
    /\ UNCHANGED <<conversations, overlapped, store_vars, repo_vars, budget_vars>>

CleanupFind(t) ==
    /\ turns[t].pc = "cleanup_find"
    /\ LET zero == Ids(SelectSeq(key_contexts, LAMBDA e : e.user_id = turns[t].user_id /\ e.context_priority = 0))
       IN  turns' = [turns EXCEPT ![t].pc = IF zero = <<>> THEN "random" ELSE "cleanup_delete",
                                  ![t].to_delete = zero]
    /\ UNCHANGED <<conversations, overlapped, store_vars, repo_vars, budget_vars>>

\* cleanup_old_contexts, line 175: await context.delete(), one document
CleanupDelete(t) ==
    /\ turns[t].pc = "cleanup_delete"
    /\ key_contexts' = DeleteDoc(key_contexts, Head(turns[t].to_delete))
    /\ turns' = [turns EXCEPT ![t] = [Wrote(turns[t], "purge") EXCEPT
                                          !.pc = IF Len(turns[t].to_delete) = 1 THEN "random" ELSE "cleanup_delete",
                                          !.to_delete = Tail(@)]]
    /\ UNCHANGED <<next_id, clock, conversations, overlapped, repo_vars, budget_vars>>

\* lines 130, 136-140: random.randint(1, 100) # 1, the response is returned
Respond(t) ==
    /\ turns[t].pc = "random"
    /\ turns' = [turns EXCEPT ![t] = Returned(turns[t])]
    /\ UNCHANGED <<conversations, overlapped, store_vars, repo_vars, budget_vars>>

\* lines 130-131 and cleanup_duplicate_contexts, lines 103-119:
\* random.randint(1, 100) = 1, the active documents are read and grouped
DuplicatesFind(t) ==
    /\ turns[t].pc = "random"
    /\ LET all_contexts == SortByUpdateFrom(ActiveContexts(key_contexts, turns[t].user_id), <<>>)
           dups == Ids(DuplicateDeletes(all_contexts, 1))
       IN  turns' = [turns EXCEPT ![t] = IF dups = <<>> THEN Returned(turns[t])
                                           ELSE [turns[t] EXCEPT !.pc = "duplicates_delete", !.to_delete = dups]]
    /\ UNCHANGED <<conversations, overlapped, store_vars, repo_vars, budget_vars>>

\* cleanup_duplicate_contexts, line 127: await duplicate_context.delete()
DuplicatesDelete(t) ==
    /\ turns[t].pc = "duplicates_delete"
    /\ key_contexts' = DeleteDoc(key_contexts, Head(turns[t].to_delete))
    /\ turns' = [turns EXCEPT ![t] = IF Len(turns[t].to_delete) = 1 THEN Returned(turns[t])
                                       ELSE [Wrote(turns[t], "sweep") EXCEPT !.to_delete = Tail(@)]]
    /\ UNCHANGED <<next_id, clock, conversations, overlapped, repo_vars, budget_vars>>

(***************************************************************************)
(* The model gateway and the patch path of handle_user_request.            *)
(***************************************************************************)
\* a request with system_message.patch_last arrives (line 50 takes the patch
\* branch)
StartPatchTurn(t, user_id, user_req, limit) ==
    /\ turns[t].pc = "idle"
    /\ t > 1 => turns[t - 1].pc # "idle"
    /\ Cardinality({x \in TurnIds : InFlight(x)}) < limit
    /\ turns' = [turns EXCEPT ![t] = [IdleTurn EXCEPT !.pc = "get_conversations", !.user_id = user_id,
                                                      !.user_req = user_req, !.patch_last = TRUE]]
    /\ overlapped' = [overlapped EXCEPT ![user_id] = @ \/ \E x \in TurnIds : InFlight(x) /\ turns[x].user_id = user_id]
    /\ UNCHANGED <<conversations, store_vars, repo_vars, budget_vars>>

\* the positions, were the model also called after the turn record write
ModelCallPcs_LateCall == {"gemini", "gemini_search", "cleanup_find"}

\* the positions at which a request calls the model endpoint
ModelCallPcs == {"gemini", "gemini_search"}

\* get_gemini_response, line 44: the first call returned a value that is no
\* dict, gemini_response.get raises AttributeError; lines 61-63 and 142-144
\* raise it on
GetGeminiResponseNoDict(t, response_text) ==
    /\ turns[t].pc = "gemini"
    /\ [kind |-> "list"] = GenerateResponse(response_text, FALSE)
    /\ turns' = [turns EXCEPT ![t] = FailedTurn([turns[t] EXCEPT !.model_calls = @ + 1], "AttributeError")]
    /\ UNCHANGED <<conversations, overlapped, store_vars, repo_vars, budget_vars>>

\* get_gemini_response, lines 51-53: the second call of _generate_response,
\* with use_google_search=True, returns the dict reply
GetSearchResponse(t, reply) ==
    /\ turns[t].pc = "gemini_search"
    /\ turns' = [turns EXCEPT ![t] = AfterModelCall(turns[t], reply, TRUE)]
    /\ clock' = ClockAfterReply(t)
    /\ UNCHANGED <<key_contexts, next_id, conversations, overlapped, repo_vars, budget_vars>>

\* _generate_response, lines 126-131: the call of the model endpoint raises;
\* get_gemini_response (61-63) and handle_user_request (142-144) raise it on
ModelError(t) ==
    /\ turns[t].pc \in ModelCallPcs
    /\ turns' = [turns EXCEPT ![t] = FailedTurn([turns[t] EXCEPT !.model_calls = @ + 1], "ModelError")]
    /\ UNCHANGED <<conversations, overlapped, store_vars, repo_vars, budget_vars>>

\* _update_last_conversation_with_patch, lines 182-186:
\* recent_conversations = await get_user_conversations(user_id, limit=1)
PatchFind(t) ==
    /\ turns[t].pc = "patch_find"
    /\ LET recent_conversations == SliceTo(UserConversations(conversations, turns[t].user_id), 1)
       IN  turns' = [turns EXCEPT ![t] = IF recent_conversations = <<>> THEN AfterUpdates(turns[t], 1)
                                           ELSE [turns[t] EXCEPT !.pc = "patch_get",
                                                                 !.last_conversation = recent_conversations[1].id]]
    /\ UNCHANGED <<conversations, overlapped, store_vars, repo_vars, budget_vars>>

\* update_conversation_reply, were the request text written over the input too
PatchGet_AlsoInput(t) ==
    /\ turns[t].pc = "patch_get"
    /\ LET conversation == GetDoc(conversations, turns[t].last_conversation)
       IN  turns' = [turns EXCEPT ![t] = IF conversation.id = NoId THEN AfterUpdates(turns[t], 1)
                                           ELSE [turns[t] EXCEPT !.pc = "patch_save",
                                                                 !.conversation = [conversation EXCEPT !.server_reply = turns[t].gemini_reply.server_reply,
                                                                                                       !.user_input = <<"p">>]]]
    /\ UNCHANGED <<conversations, overlapped, store_vars, repo_vars, budget_vars>>

\* update_conversation_reply, lines 82-84: conversation = await
\* Conversation.get(id); its server_reply is set in memory
PatchGet(t) ==
    /\ turns[t].pc = "patch_get"
    /\ LET conversation == GetDoc(conversations, turns[t].last_conversation)
       IN  turns' = [turns EXCEPT ![t] = IF conversation.id = NoId THEN AfterUpdates(turns[t], 1)
                                           ELSE [turns[t] EXCEPT !.pc = "patch_save",
                                                                 !.conversation = [conversation EXCEPT !.server_reply = turns[t].gemini_reply.server_reply]]]
    /\ UNCHANGED <<conversations, overlapped, store_vars, repo_vars, budget_vars>>

\* update_conversation_reply, line 85: await conversation.save()
PatchSave(t) ==
    /\ turns[t].pc = "patch_save"
    /\ conversations' = SaveDoc(conversations, turns[t].conversation)
    /\ turns' = [turns EXCEPT ![t] = [AfterUpdates(Wrote(turns[t], "patch"), 1) EXCEPT !.conversation = NoDoc]]
    /\ UNCHANGED <<overlapped, store_vars, repo_vars, budget_vars>>

(***************************************************************************)
(* Storage failures: the awaited store operation raises.  Each action is   *)
(* what the except clause around the operation makes of it.                *)
(***************************************************************************)
\* bookkeeping: a store operation failed under the request
Faulted(turn, operation) == [turn EXCEPT !.faults = @ \cup {operation}]

\* the request may take one more storage failure
MayFail(t) == Cardinality(turns[t].faults) < MaxFaults

\* get_optimized_conversations, lines 127-129: except -> return []
GetConversationsFails(t) ==
    /\ turns[t].pc = "get_conversations"
    /\ MayFail(t)
    /\ turns' = [turns EXCEPT ![t] = [Faulted(turns[t], "get_optimized_conversations") EXCEPT
                                          !.pc = "get_key_contexts", !.last_conversations = <<>>]]
    /\ UNCHANGED <<conversations, overlapped, store_vars, repo_vars, budget_vars>>

\* get_optimized_key_contexts, lines 216-218: except -> return []
GetKeyContextsFails(t) ==
    /\ turns[t].pc = "get_key_contexts"
    /\ MayFail(t)
    /\ turns' = [turns EXCEPT ![t] = [Faulted(turns[t], "get_optimized_key_contexts") EXCEPT
                                          !.pc = "get_map", !.key_context_data = <<>>, !.snapshot_ids = <<>>]]
    /\ UNCHANGED <<conversations, overlapped, store_vars, repo_vars, budget_vars>>

\* get_user_key_contexts, lines 26-28: except -> return []
GetContextMapFails(t) ==
    /\ turns[t].pc = "get_map"
    /\ MayFail(t)
    /\ turns' = [turns EXCEPT ![t] = [Faulted(turns[t], "get_user_key_contexts") EXCEPT
                                          !.pc = "gemini", !.entry_to_context_map = <<>>]]
    /\ UNCHANGED <<conversations, overlapped, store_vars, repo_vars, budget_vars>>

\* save_conversation, lines 65-67: except -> raise; handle_user_request,
\* lines 142-144, raises it on
SaveConversationFails(t) ==
    /\ turns[t].pc = "save_conversation"
    /\ MayFail(t)
    /\ turns' = [turns EXCEPT ![t] = FailedTurn(Faulted(turns[t], "save_conversation"), "StorageError")]
    /\ UNCHANGED <<conversations, overlapped, store_vars, repo_vars, budget_vars>>

\* get_user_conversations, lines 26-28 (except -> return []), or
\* update_conversation_reply, lines 91-93 (except -> return False):
\* _update_last_conversation_with_patch logs and the request goes on
PatchFails(t) ==
    /\ turns[t].pc \in {"patch_find", "patch_get", "patch_save"}
    /\ MayFail(t)
    /\ turns' = [turns EXCEPT ![t] = [AfterUpdates(Faulted(turns[t], "patch"), 1) EXCEPT !.conversation = NoDoc]]
    /\ UNCHANGED <<conversations, overlapped, store_vars, repo_vars, budget_vars>>

\* update_key_context_priority, lines 149-151: except -> return False; the
\* walk over context_updates goes on (lines 106-107)
UpdateFails(t) ==
    /\ turns[t].pc \in {"update_get", "update_save"}
    /\ MayFail(t)
    /\ turns' = [turns EXCEPT ![t] = [AfterUpdates(Faulted(turns[t], "update_key_context_priority"), turns[t].update_index + 1)
                                          EXCEPT !.context = NoDoc]]
    /\ UNCHANGED <<conversations, overlapped, store_vars, repo_vars, budget_vars>>

\* _find_similar_context, lines 95-97: except -> return None;
\* save_user_key_context goes on to create a new document (lines 50-58)
FindSimilarFails(t) ==
    /\ turns[t].pc = "find_similar"
    /\ MayFail(t)
    /\ LET ip == turns[t].gemini_reply.interaction_params
       IN  turns' = [turns EXCEPT ![t] = [Faulted(turns[t], "_find_similar_context") EXCEPT
                         !.pc = "save_context",
                         !.existing_context = KeyContextDoc(NoId, turns[t].user_id, ip.relevant_info, ip.context_priority, clock + 1, clock + 2)]]
    /\ clock' = clock + 2
    /\ UNCHANGED <<key_contexts, next_id, conversations, overlapped, repo_vars, budget_vars>>

\* save_user_key_context, lines 62-64: except -> raise; handle_user_request,
\* lines 142-144, raises it on
SaveContextFails(t) ==
    /\ turns[t].pc = "save_context"
    /\ MayFail(t)
    /\ turns' = [turns EXCEPT ![t] = FailedTurn(Faulted(turns[t], "save_user_key_context"), "StorageError")]
    /\ UNCHANGED <<conversations, overlapped, store_vars, repo_vars, budget_vars>>

\* cleanup_old_contexts, lines 179-180: except -> logged, nothing raised
CleanupFails(t) ==
    /\ turns[t].pc \in {"cleanup_find", "cleanup_delete"}
    /\ MayFail(t)
    /\ turns' = [turns EXCEPT ![t] = [Faulted(turns[t], "cleanup_old_contexts") EXCEPT !.pc = "random", !.to_delete = <<>>]]
    /\ UNCHANGED <<conversations, overlapped, store_vars, repo_vars, budget_vars>>

\* cleanup_duplicate_contexts, lines 134-136: except -> return 0; the
\* response is returned (lines 136-140)
DuplicatesFails(t) ==
    /\ \/ turns[t].pc = "random"
       \/ turns[t].pc = "duplicates_delete"
    /\ MayFail(t)
    /\ turns' = [turns EXCEPT ![t] = Returned(turns[t])]
    /\ UNCHANGED <<conversations, overlapped, store_vars, repo_vars, budget_vars>>

Init == BudgetIdle /\ StoreEmpty /\ RepoIdle /\ TurnsIdle

\* what a request does once it has arrived and has its reply
TurnStep(t) ==
    \/ GetConversations(t)
    \/ GetKeyContexts(t)
    \/ GetContextMap(t)
    \/ SaveConversation(t)
    \/ UpdateGet(t)
    \/ UpdateSave(t)
    \/ FindSimilar(t)
    \/ SaveContext(t)
    \/ CleanupFind(t)
    \/ CleanupDelete(t)
    \/ Respond(t)
    \/ DuplicatesFind(t)
    \/ DuplicatesDelete(t)

\* the requests of a user come one at a time
Next ==
    \E t \in TurnIds :
       \/ \E u \in TurnUsers, q \in UserRequests : StartTurn(t, u, q, 1)
       \/ \E r \in Replies : GetGeminiResponse(t, r)
       \/ TurnStep(t)

Spec == Init /\ [][Next]_vars

\* up to MaxInFlight requests are in flight together
NextOverlap ==
    \E t \in TurnIds :
       \/ \E u \in TurnUsers, q \in UserRequests : StartTurn(t, u, q, MaxInFlight)
       \/ \E r \in OverlapReplies : GetGeminiResponse(t, r)
       \/ TurnStep(t)

SpecOverlap == Init /\ [][NextOverlap]_vars

\* the replies of requests of different users; entry 2 is an index no
\* user's map resolves while each holds one entry
UsersReplies ==
    { Reply(<<>>, Fact(TextUsersNameIsAna, 2)),
      Reply(<<[entry_number |-> 1, new_priority |-> 0]>>, NoFact),
      Reply(<<[entry_number |-> 2, new_priority |-> 5]>>, NoFact) }

\* requests of several users, up to MaxInFlight in flight together
NextUsers ==
    \E t \in TurnIds :
       \/ \E u \in Users, q \in UserRequests : StartTurn(t, u, q, MaxInFlight)
       \/ \E u \in Users, q \in UserRequests : StartPatchTurn(t, u, q, MaxInFlight)
       \/ \E r \in UsersReplies : GetGeminiResponse(t, r)
       \/ PatchFind(t)
       \/ PatchGet(t)
       \/ PatchSave(t)
       \/ TurnStep(t)

SpecUsers == Init /\ [][NextUsers]_vars

\* a memory grown over earlier requests: request k stored its conversation
\* and then a one-word fact of priority 2
LongLetters ==
    <<"b", "c", "d", "e", "f", "g", "h", "i", "j", "k", "l", "m", "n", "o", "p", "q",
      "r", "s", "t", "u", "v", "w", "x", "y", "z", "0", "1", "2", "3", "4">>

LongCounts == {0, Len(LongLetters)}

LongConversations(n) ==
    [k \in 1..n |-> ConversationDoc(2 * k - 1, "u1", <<"h", "i">>, <<"o", "k">>, Fact(<<LongLetters[k]>>, 2), 3 * k - 2)]

LongStore(n) == [k \in 1..n |-> KeyContextDoc(2 * k, "u1", <<LongLetters[k]>>, 2, 3 * k - 1, 3 * k)]

LongInit ==
    /\ BudgetIdle /\ RepoIdle
    /\ turns = [t \in TurnIds |-> IdleTurn] /\ overlapped = [u \in Users |-> FALSE]
    /\ \E n \in LongCounts :
          /\ conversations = LongConversations(n)
          /\ key_contexts = LongStore(n)
          /\ next_id = 2 * n + 1
          /\ clock = 3 * n

LongReplies ==
    { Reply(<<>>, Fact(TextUsersNameIsAna, 2)),
      Reply(<<[entry_number |-> 1, new_priority |-> -1]>>, NoFact),
      Reply(<<[entry_number |-> 1, new_priority |-> -1]>>, Fact(TextUsersNameIsAna, 2)),
      Reply(<<[entry_number |-> 1, new_priority |-> 0]>>, NoFact),
      Reply(<<[entry_number |-> 2, new_priority |-> 5]>>, NoFact) }

\* requests one at a time on a memory that is empty or long
NextLongMemory ==
    \E t \in TurnIds :
       \/ \E u \in TurnUsers, q \in UserRequests : StartTurn(t, u, q, 1)
       \/ \E r \in LongReplies : GetGeminiResponse(t, r)
       \/ TurnStep(t)

SpecLongMemory == LongInit /\ [][NextLongMemory]_vars

\* what _generate_response returns on the texts of the first and of the
\* second call
FirstResponses == { GenerateResponse(text, FALSE) : text \in RawTexts }

SearchResponses == { GenerateResponse(text, TRUE) : text \in SearchTexts }

\* what a request does at the model gateway and on the patch path
GatewayStep(t) ==
    \/ \E g \in FirstResponses : g.kind = "dict" /\ GetGeminiResponse(t, g.value)
    \/ \E text \in RawTexts : GetGeminiResponseNoDict(t, text)
    \/ \E g \in SearchResponses : g.kind = "dict" /\ GetSearchResponse(t, g.value)
    \/ ModelError(t)
    \/ PatchFind(t)
    \/ PatchGet(t)
    \/ PatchSave(t)

\* requests one at a time, normal or with a patch signal, the model
\* answering with any text of RawTexts and SearchTexts or failing
NextGateway ==
    \E t \in TurnIds :
       \/ \E u \in TurnUsers, q \in UserRequests : StartTurn(t, u, q, 1)
       \/ \E u \in TurnUsers, q \in UserRequests : StartPatchTurn(t, u, q, 1)
       \/ GatewayStep(t)
       \/ TurnStep(t)

SpecGateway == Init /\ [][NextGateway]_vars

\* the store operations of a request may fail
FaultStep(t) ==
    \/ GetConversationsFails(t)
    \/ GetKeyContextsFails(t)
    \/ GetContextMapFails(t)
    \/ SaveConversationFails(t)
    \/ PatchFails(t)
    \/ UpdateFails(t)
    \/ FindSimilarFails(t)
    \/ SaveContextFails(t)
    \/ CleanupFails(t)
    \/ DuplicatesFails(t)

\* the texts the model answers with when the store may fail
FaultTexts ==
    { <<>>,
      ToJson(Reply(<<>>, Fact(TextUsersNameIsAna, 2))),
      ToJson(Reply(<<[entry_number |-> 1, new_priority |-> 0]>>, Fact(TextUsersNameIsAna, 2))) }

FaultResponses == { GenerateResponse(text, FALSE) : text \in FaultTexts }

NextFaults ==
    \E t \in TurnIds :
       \/ \E u \in TurnUsers, q \in UserRequests : StartTurn(t, u, q, 1)
       \/ \E u \in TurnUsers, q \in UserRequests : StartPatchTurn(t, u, q, 1)
       \/ \E g \in FaultResponses : g.kind = "dict" /\ GetGeminiResponse(t, g.value)
       \/ PatchFind(t)
       \/ PatchGet(t)
       \/ PatchSave(t)
       \/ TurnStep(t)
       \/ FaultStep(t)

SpecFaults == Init /\ [][NextFaults]_vars

(***************************************************************************)
(* Claims about build_optimized_context, checked under SpecBudget.         *)
(***************************************************************************)
RawInstruction == JoinSections(fixed_context, key_context_section, conversation_section)

IsPrefix(p, s) == Len(p) <= Len(s) /\ SubSeq(s, 1, Len(p)) = p

RECURSIVE ConcatLines(_, _)
ConcatLines(sorted, k) == IF k = 0 THEN <<>> ELSE ConcatLines(sorted, k - 1) \o KeyContextLine(k, sorted[k])

\* C1 (as stated): for all inputs the text returned by build_optimized_context
\* has length <= maxTotalChars.
C1_BudgetAlways == built => Len(instruction) <= max_total_context_chars

\* C1 (amended): the returned text has length <= maxTotalChars whenever the
\* fixed instructions fit the cap; when the fixed instructions alone exceed
\* the cap the returned text is the fixed instructions, longer than the cap.
C1_BudgetWhenFixedFits ==
    built => /\ Len(instruction) <= Max(max_total_context_chars, Len(fixed_context))
             /\ Len(fixed_context) > max_total_context_chars => Len(instruction) = Len(fixed_context)

\* C1 witness: the joined text exceeded the cap and was cut to cap - 50
\* characters plus the truncation marker.
C1_Witness ==
    /\ built
    /\ Len(RawInstruction) > max_total_context_chars
    /\ instruction = SliceTo(RawInstruction, max_total_context_chars - TruncationBuffer) \o TruncationMarker
    /\ Len(instruction) = max_total_context_chars - TruncationBuffer + Len(TruncationMarker)

\* C2: the returned text always begins with the complete fixed instructions,
\* and is exactly the fixed instructions when they alone exceed the cap.
C2_FixedNeverCut ==
    built => /\ IsPrefix(fixed_context, instruction)
             /\ Len(fixed_context) > max_total_context_chars => instruction = fixed_context

\* C2 witness: the fixed instructions alone exceed the cap while memory and
\* history sections were built, and the output dropped those sections.
C2_Witness ==
    /\ built
    /\ Len(fixed_context) > max_total_context_chars
    /\ key_context_section # <<>>
    /\ conversation_section # <<>>
    /\ instruction # RawInstruction

\* the formatted lines of the priority-sorted entry list, joined: at k the
\* text of lines 1..k
SortedLines ==
    LET sorted == SortedByPriority(key_context_data)
    IN  [k \in 0..Len(sorted) |-> ConcatLines(sorted, k)]

\* the length of the longest prefix of the sorted list whose formatted lines
\* total at most maxMemoryChars: every shorter prefix fits as well and the
\* next line does not
LongestFit(lines) ==
    LET fitting == {k \in DOMAIN lines : Len(lines[k]) <= max_key_context_chars}
    IN  CHOOSE k \in fitting : (0..k) \subseteq fitting /\ (k + 1) \notin fitting

\* the numbers of the memory lines that stand whole, with all lines before
\* them, in the returned context
IncludedLines(lines) ==
    {i \in DOMAIN lines \ {0} : IsPrefix(fixed_context \o SectionGap \o KeyContextHeader \o lines[i], instruction)}

\* the length of the joined text up to and including memory line i
LenUpToLine(lines, i) == Len(fixed_context) + Len(SectionGap) + Len(KeyContextHeader) + Len(lines[i])

\* the entries are ranked by priority and the memory section is built from
\* the first k of them
SectionIsPrefix(lines, k) ==
    /\ LET sorted == SortedByPriority(key_context_data)
       IN  \A i \in 1..(Len(sorted) - 1) : sorted[i].context_priority >= sorted[i + 1].context_priority
    /\ key_context_section = (IF k = 0 THEN <<>> ELSE KeyContextHeader \o lines[k])

\* C9 (as stated): the memory lines included in the returned context are
\* always those of the longest prefix of the priority-sorted entry list
\* whose formatted lines total at most maxMemoryChars.
C9_LongestPrefixAlways ==
    built =>
       LET lines == SortedLines
           k == LongestFit(lines)
       IN  /\ SectionIsPrefix(lines, k)
           /\ IncludedLines(lines) = 1..k

\* C9 (amended): the memory section is built from the longest prefix of the
\* priority-sorted entry list whose formatted lines total at most
\* maxMemoryChars, and no line behind that prefix is ever in the returned
\* context.  A context within maxTotalChars carries every line of the
\* prefix; a longer one is cut at maxTotalChars - 50 characters and carries
\* the lines of the prefix that end within the cut (a line cut before its
\* closing newline is closed by the truncation marker), possibly none.
C9_LongestPrefix ==
    built =>
       LET lines == SortedLines
           k == LongestFit(lines)
           included == IncludedLines(lines)
           cut == max_total_context_chars - TruncationBuffer
       IN  /\ SectionIsPrefix(lines, k)
           /\ included \subseteq 1..k
           /\ Len(RawInstruction) <= max_total_context_chars => included = 1..k
           /\ Len(RawInstruction) > max_total_context_chars =>
                 /\ {i \in 1..k : LenUpToLine(lines, i) <= cut} \subseteq included
                 /\ included \subseteq {i \in 1..k : LenUpToLine(lines, i) - 1 <= cut}

\* C9 witness: three entries of priorities 80, 40, 10; the second line does
\* not fit, the third would fit in its place, and the returned context
\* carries line 1 and no other.
C9_Witness ==
    /\ built
    /\ Len(key_context_data) = 3
    /\ LET sorted == SortedByPriority(key_context_data)
       IN  /\ <<sorted[1].context_priority, sorted[2].context_priority, sorted[3].context_priority>> = <<80, 40, 10>>
           /\ Len(KeyContextLine(1, sorted[1])) + Len(KeyContextLine(2, sorted[2])) > max_key_context_chars
           /\ Len(KeyContextLine(1, sorted[1])) + Len(KeyContextLine(3, sorted[3])) <= max_key_context_chars
           /\ key_context_section = KeyContextHeader \o KeyContextLine(1, sorted[1])
           /\ IncludedLines(SortedLines) = {1}
           /\ ~IsPrefix(fixed_context \o SectionGap \o key_context_section \o KeyContextLine(2, sorted[3]), instruction)

\* the store delivers history newest-first: strictly decreasing timestamps
NewestFirst(convs) == \A i \in 1..(Len(convs) - 1) : convs[i].timestamp > convs[i + 1].timestamp

\* the entries of the turns at the positions of I, oldest first (the list is
\* newest-first, so from the highest position down)
RECURSIVE ChronologicalText(_, _, _)
ChronologicalText(convs, I, i) ==
    IF i < 1 THEN <<>>
    ELSE (IF i \in I THEN ConvEntry(convs[i]) ELSE <<>>) \o ChronologicalText(convs, I, i - 1)

\* C10 (as stated): for a history delivered newest-first, the accepted turns
\* appear in the history section oldest first, newest last.
C10_Chronological ==
    (built /\ NewestFirst(context_conversations)) =>
       \E I \in SUBSET (1..Len(context_conversations)) :
          conversation_section =
             (IF I = {} THEN <<>>
              ELSE ConversationHeader \o ChronologicalText(context_conversations, I, Len(context_conversations)))

\* the entries of the k newest turns of a history delivered newest-first, in
\* the order of the list
RECURSIVE NewestText(_, _)
NewestText(convs, k) == IF k = 0 THEN <<>> ELSE NewestText(convs, k - 1) \o ConvEntry(convs[k])

\* C11 (as stated): for a history delivered newest-first, the history section
\* holds the k newest turns for the largest k whose formatted pairs total at
\* most max_conversation_chars (in either order of presentation): no older
\* turn is included while a newer one is left out.
C11_NewestTurnsKept ==
    (built /\ NewestFirst(context_conversations)) =>
       \E k \in 0..Len(context_conversations) :
          /\ Len(NewestText(context_conversations, k)) <= max_conversation_chars
          /\ k < Len(context_conversations) =>
                Len(NewestText(context_conversations, k + 1)) > max_conversation_chars
          /\ \/ k = 0 /\ conversation_section = <<>>
             \/ k > 0 /\ conversation_section = ConversationHeader \o NewestText(context_conversations, k)
             \/ k > 0 /\ conversation_section =
                            ConversationHeader \o ChronologicalText(context_conversations, 1..k, Len(context_conversations))

(***************************************************************************)
(* Claims about save_user_key_context and _find_similar_context, checked   *)
(* under SpecRepo on the call that has just returned (last_call).          *)
(***************************************************************************)
\* the similarity rule as specified: after trim, lowercase and removal of
\* '.' and ',', the word sets A and B satisfy |A n B| / max(|A|,|B|) >= 0.9;
\* two texts without any word (the ratio is 0/0) count as duplicates only
\* when they are the same text
RuleDuplicate(a, b) ==
    LET A == WordSet(Strip(Lower(a)))
        B == WordSet(Strip(Lower(b)))
    IN  IF A = {} /\ B = {} THEN a = b
        ELSE 10 * Cardinality(A \cap B) >= 9 * Max(Cardinality(A), Cardinality(B))

ActiveCount(store, user_id) == Len(ActiveContexts(store, user_id))

LatestUpdate(store) == IF store = <<>> THEN 0 ELSE CHOOSE t \in {store[i].updated_at : i \in 1..Len(store)} : \A i \in 1..Len(store) : store[i].updated_at <= t

SavedOver ==
    /\ last_call.op = "save"
    /\ \E i \in 1..Len(last_call.before) :
          /\ last_call.before[i].user_id = last_call.user_id
          /\ last_call.before[i].context_priority > 0
          /\ RuleDuplicate(last_call.before[i].relevant_info, last_call.relevant_info)

\* C5 (as stated): inserting a fact while an active duplicate of it exists
\* inserts no second entry: the number of documents and of active entries
\* is unchanged, and a duplicate entry carries priority max(existing, new)
\* and a refreshed timestamp.
C5_MergeNoSecondEntry ==
    SavedOver =>
       /\ Len(key_contexts) = Len(last_call.before)
       /\ ActiveCount(key_contexts, last_call.user_id) = ActiveCount(last_call.before, last_call.user_id)
       /\ \E i \in 1..Len(last_call.before) :
             /\ last_call.before[i].user_id = last_call.user_id
             /\ last_call.before[i].context_priority > 0
             /\ RuleDuplicate(last_call.before[i].relevant_info, last_call.relevant_info)
             /\ key_contexts[i].id = last_call.before[i].id
             /\ key_contexts[i].context_priority = Max(last_call.before[i].context_priority, last_call.context_priority)
             /\ key_contexts[i].updated_at > LatestUpdate(last_call.before)

SavedAnaOverUsersName ==
    /\ last_call.op = "save"
    /\ last_call.relevant_info = TextTheUsersNameIsAna
    /\ ActiveCount(last_call.before, last_call.user_id) >= 1
    /\ \A i \in 1..Len(last_call.before) :
          (last_call.before[i].user_id = last_call.user_id /\ last_call.before[i].context_priority > 0)
             => last_call.before[i].relevant_info = TextUsersNameIsAna

\* C6 (as stated): "The user's name is Ana" submitted while the active entry
\* "users name is ana." exists is merged: no second entry, and the entry's
\* priority is the max of both.
C6_AnaMerged ==
    SavedAnaOverUsersName =>
       /\ last_call.found # NoId
       /\ Len(key_contexts) = Len(last_call.before)
       /\ GetDoc(key_contexts, last_call.found).context_priority
             = Max(GetDoc(last_call.before, last_call.found).context_priority, last_call.context_priority)

\* C6 (amended): "The user's name is Ana" submitted while the user's only
\* active entry is "users name is ana." is not a duplicate under the
\* similarity rule (3 common words of 5): a second entry is created with the
\* submitted text and priority, and the existing entries are unchanged.
C6_AnaNotMerged ==
    SavedAnaOverUsersName =>
       /\ last_call.found = NoId
       /\ Len(key_contexts) = Len(last_call.before) + 1
       /\ SubSeq(key_contexts, 1, Len(last_call.before)) = last_call.before
       /\ key_contexts[Len(key_contexts)].relevant_info = TextTheUsersNameIsAna
       /\ key_contexts[Len(key_contexts)].context_priority = last_call.context_priority
       /\ key_contexts[Len(key_contexts)].user_id = last_call.user_id
       /\ ActiveCount(key_contexts, last_call.user_id) = ActiveCount(last_call.before, last_call.user_id) + 1

\* C6 witness: the user holds the two active entries "users name is ana."
\* and "The user's name is Ana" after the submission.
C6_Witness ==
    /\ SavedAnaOverUsersName
    /\ ActiveCount(key_contexts, last_call.user_id) = 2
    /\ \E i, j \in 1..Len(key_contexts) :
          /\ key_contexts[i].relevant_info = TextUsersNameIsAna
          /\ key_contexts[j].relevant_info = TextTheUsersNameIsAna
          /\ key_contexts[i].user_id = last_call.user_id
          /\ key_contexts[j].user_id = last_call.user_id

\* C7 (as stated): the duplicate check compares every active entry of the
\* user with the new fact and finds a duplicate exactly when one of them
\* satisfies the similarity rule; the entry found is an active entry of the
\* user that satisfies it.
C7_DuplicateRule ==
    last_call.op = "save" =>
       /\ (last_call.found # NoId) <=> SavedOver
       /\ last_call.found # NoId =>
             LET e == GetDoc(last_call.before, last_call.found)
             IN  /\ e.id # NoId
                 /\ e.user_id = last_call.user_id
                 /\ e.context_priority > 0
                 /\ RuleDuplicate(e.relevant_info, last_call.relevant_info)

(***************************************************************************)
(* Claims about handle_user_request, checked under Spec (requests one at a *)
(* time) and SpecOverlap (requests side by side).                          *)
(***************************************************************************)
\* the priority update request t is working on
CurrentUpdate(t) == turns[t].gemini_reply.context_updates[turns[t].update_index]

\* the update names a position of the snapshot that was sent to the model
InSnapshot(t) == CurrentUpdate(t).entry_number \in 1..Len(turns[t].key_context_data)

\* C3 (as stated): a priority update (k, p) with k a position of the
\* snapshot sent to the model sets the priority of the entry that was listed
\* at position k of that snapshot, also when another request of the user
\* changes the store between the snapshot read and the reconciliation: the
\* document a request is about to write for such an update is that entry.
C3_UpdateHitsSnapshotEntry ==
    \A t \in TurnIds :
       (turns[t].pc = "update_save" /\ InSnapshot(t)) =>
          turns[t].context.id = turns[t].snapshot_ids[CurrentUpdate(t).entry_number]

\* C4 (as stated): a priority update whose index is not a position of the
\* snapshot sent to the model is skipped: the step that ends the update
\* leaves every memory entry as it was.
C4_OutOfSnapshotSkipped ==
    [][\A t \in TurnIds :
          (turns[t].pc = "update_save" /\ ~InSnapshot(t) /\ turns'[t].pc # "update_save") =>
             key_contexts' = key_contexts]_vars

\* C8 (as stated): after any sequence of non-overlapping requests of one
\* user, no two of the user's active entries have duplicate texts under the
\* similarity rule.
C8_NoActiveDuplicates ==
    (\A t \in TurnIds : ~InFlight(t)) =>
       \A u \in Users : ~overlapped[u] =>
          \A i, j \in 1..Len(key_contexts) :
             (/\ i # j
              /\ key_contexts[i].user_id = u /\ key_contexts[j].user_id = u
              /\ key_contexts[i].context_priority > 0 /\ key_contexts[j].context_priority > 0)
                => ~RuleDuplicate(key_contexts[i].relevant_info, key_contexts[j].relevant_info)

(***************************************************************************)
(* Claims about the model gateway, the patch path and failures.            *)
(***************************************************************************)
\* the request t holds the fallback reply for an empty model response
HoldsEmptyFallback(t) == InFlight(t) /\ turns[t].model_calls > 0 /\ turns[t].gemini_reply = EmptyFallback

\* every document of the store after is a document of the store before,
\* unchanged
OnlyDeletes(before, after) == \A i \in 1..Len(after) : \E j \in 1..Len(before) : after[i] = before[j]

\* the documents a purge pass or a duplicate sweep may delete: priority 0,
\* or active with an active document of the same normalized text remaining
Purgeable(before, after, e) ==
    \/ e.context_priority = 0
    \/ /\ e.context_priority > 0
       /\ \E i \in 1..Len(after) :
             /\ after[i].user_id = e.user_id
             /\ after[i].context_priority > 0
             /\ DuplicateKey(after[i].relevant_info) = DuplicateKey(e.relevant_info)

\* C12 as stated: when the model returns an empty reply, the request leaves
\* the memory entries as they were: no step of the request changes the store
\* of key contexts.
C12_FallbackLeavesMemory ==
    [][\A t \in TurnIds : HoldsEmptyFallback(t) => key_contexts' = key_contexts]_vars

\* C12, amended: when the model returns an empty reply, the request answers
\* with the fixed apology and question = false, appends a turn record with
\* the apology (or patches it in), and creates or modifies no memory entry;
\* its purge pass and sampled sweep still run, so the only change to the
\* memory is the deletion of entries at priority 0 and of duplicates.
C12_FallbackOnlyPurges ==
    [][\A t \in TurnIds : HoldsEmptyFallback(t) =>
          /\ OnlyDeletes(key_contexts, key_contexts')
          /\ \A j \in 1..Len(key_contexts) :
                (\A i \in 1..Len(key_contexts') : key_contexts'[i].id # key_contexts[j].id)
                   => Purgeable(key_contexts, key_contexts', key_contexts[j])
          /\ turns'[t].pc = "done" =>
                turns'[t].response = [kind |-> "response", server_reply |-> ApologyText, app_params |-> AppParams(FALSE)]
          /\ Len(conversations') > Len(conversations) =>
                conversations'[Len(conversations')].server_reply = ApologyText]_vars

\* a request answered with the apology after an empty model response, its
\* turn record written, with memory entries of the user in the store
C12_Witness ==
    \E t \in TurnIds :
       /\ turns[t].pc = "done"
       /\ turns[t].response = [kind |-> "response", server_reply |-> ApologyText, app_params |-> AppParams(FALSE)]
       /\ \E i \in 1..Len(conversations) : conversations[i].interaction_params.relevant_info = SystemErrorInfo
       /\ key_contexts # <<>>

\* C13 as stated: whatever text the model returns in structured mode, the
\* gateway answers with a reply (the parsed one or the fixed fallback) and
\* never raises: no request fails with an error raised on the returned text.
C13_MalformedNeverRaises ==
    \A t \in TurnIds : turns[t].pc = "failed" => turns[t].response.error # "AttributeError"

\* C14: a request calls the model endpoint at most twice; the second call is
\* made only after a first reply that requests GoogleSearchSkill, and after
\* the second call the request is never again at a model call, whatever the
\* second reply contains.
C14_AtMostTwoCalls ==
    \A t \in TurnIds :
       /\ turns[t].model_calls <= 2
       /\ turns[t].pc = "gemini" => turns[t].model_calls = 0
       /\ turns[t].pc = "gemini_search" =>
             turns[t].model_calls = 1 /\ turns[t].gemini_reply.server_skill = GoogleSearchSkill
       /\ turns[t].model_calls = 2 => turns[t].pc \notin ModelCallPcs

\* the second call has returned a reply that requests the skill again, and
\* the request has gone on to persist the turn
C14_Witness ==
    \E t \in TurnIds :
       /\ turns[t].model_calls = 2
       /\ turns[t].gemini_reply.server_skill = GoogleSearchSkill
       /\ turns[t].pc = "save_conversation"

\* C15 as stated: when the text of the second call is wrapped into a reply,
\* question is true exactly when the text ends in "?".
C15_QuestionFromText ==
    \A t \in TurnIds :
       (/\ InFlight(t)
        /\ turns[t].model_calls = 2
        /\ turns[t].gemini_reply = SearchReply(turns[t].gemini_reply.server_reply)
        /\ turns[t].gemini_reply.server_reply # <<>>)
          => (turns[t].gemini_reply.app_params[1].question
                <=> turns[t].gemini_reply.server_reply[Len(turns[t].gemini_reply.server_reply)] = "?")

\* C16: when a call of the model endpoint raises, the request fails with
\* that error and has committed nothing: the failing step leaves the turn
\* history and the memory entries unchanged, and the request had completed
\* no store write before it.  (Every step that changes a store is on record
\* in the writes of a request, or completes the request.)
C16_ModelErrorCommitsNothing ==
    [][/\ \A t \in TurnIds :
             (turns[t].pc # "failed" /\ turns'[t].pc = "failed" /\ turns'[t].response.error = "ModelError") =>
                /\ turns[t].writes = <<>>
                /\ turns'[t].writes = <<>>
                /\ conversations' = conversations
                /\ key_contexts' = key_contexts
       /\ (conversations' # conversations \/ key_contexts' # key_contexts) =>
             \E t \in TurnIds : \/ Len(turns'[t].writes) > Len(turns[t].writes)
                                \/ turns[t].pc # "done" /\ turns'[t].pc = "done"]_vars

\* a request has failed with the error of the model call while the stores
\* hold what an earlier request wrote
C16_Witness ==
    \E t \in TurnIds :
       /\ turns[t].pc = "failed"
       /\ turns[t].response = [kind |-> "error", error |-> "ModelError"]
       /\ turns[t].writes = <<>>
       /\ conversations # <<>>
       /\ key_contexts # <<>>

\* the writes of a request to the memory entries
MemoryWrites == {"priority", "fact", "purge", "sweep"}

\* C17 as stated: a request writes to the memory entries only after its
\* turn record write (the append, or the patch overwrite) has completed; when
\* that write fails or does not happen, no memory write follows.
C17_RecordBeforeMemory ==
    \A t \in TurnIds :
       (\E i \in 1..Len(turns[t].writes) : turns[t].writes[i] \in MemoryWrites)
          => turns[t].writes[1] \in {"conversation", "patch"}

\* the positions of a request after its turn record step
AfterRecordPcs ==
    {"update_get", "update_save", "find_similar", "save_context", "cleanup_find", "cleanup_delete",
     "random", "duplicates_delete"}

\* how many of the completed writes of the request are of the given kind
WriteCount(t, what) == Cardinality({i \in 1..Len(turns[t].writes) : turns[t].writes[i] = what})

\* position k holds the most recent turn record of the user
MostRecent(convs, user_id, k) ==
    /\ convs[k].user_id = user_id
    /\ \A j \in 1..Len(convs) : convs[j].user_id = user_id => convs[j].timestamp <= convs[k].timestamp

\* C18 as stated: every request that gets past its turn record step has
\* changed the turn history in exactly one way, an append for a normal
\* request, an overwrite for a request with the patch signal.
C18_ExactlyOneChange ==
    \A t \in TurnIds :
       turns[t].pc \in AfterRecordPcs =>
          /\ ~turns[t].patch_last => WriteCount(t, "conversation") = 1 /\ WriteCount(t, "patch") = 0
          /\ turns[t].patch_last => WriteCount(t, "conversation") = 0 /\ WriteCount(t, "patch") = 1

\* C18, amended: a request changes the turn history in at most one way.  A
\* normal request appends exactly one record (its input, the reply) and
\* modifies none.  A request with the patch signal appends none and
\* overwrites at most the server_reply of the user's most recent record, all
\* other fields and records unchanged: it does so when the user has a record
\* and the store takes the write, and changes nothing when the user has no
\* record yet.
C18_AtMostOneChange ==
    [][/\ conversations' # conversations =>
             \E t \in TurnIds :
                \/ /\ turns[t].pc = "save_conversation" /\ ~turns[t].patch_last
                   /\ turns[t].writes = <<>>
                   /\ Len(conversations') = Len(conversations) + 1
                   /\ SubSeq(conversations', 1, Len(conversations)) = conversations
                   /\ conversations'[Len(conversations')].user_id = turns[t].user_id
                   /\ conversations'[Len(conversations')].user_input = turns[t].user_req
                   /\ conversations'[Len(conversations')].server_reply = turns[t].gemini_reply.server_reply
                \/ /\ turns[t].pc = "patch_save" /\ turns[t].patch_last
                   /\ turns[t].writes = <<>>
                   /\ Len(conversations') = Len(conversations)
                   /\ \E k \in 1..Len(conversations) :
                         /\ MostRecent(conversations, turns[t].user_id, k)
                         /\ conversations' = [conversations EXCEPT ![k].server_reply = turns[t].gemini_reply.server_reply]
       /\ \A t \in TurnIds :
             turns'[t].pc \in AfterRecordPcs =>
                /\ ~turns'[t].patch_last =>
                      WriteCount(t, "conversation")' = 1 /\ WriteCount(t, "patch")' = 0
                /\ turns'[t].patch_last =>
                      /\ WriteCount(t, "conversation")' = 0
                      /\ WriteCount(t, "patch")' <= 1
                      /\ UserConversations(conversations', turns'[t].user_id) = <<>> => WriteCount(t, "patch")' = 0
                      /\ (UserConversations(conversations', turns'[t].user_id) # <<>> /\ "patch" \notin turns'[t].faults)
                            => WriteCount(t, "patch")' = 1]_vars

\* a request with the patch signal has overwritten, with the apology, the
\* reply of a record that an earlier request had appended with its reply
C18_Witness ==
    \E t \in TurnIds :
       /\ turns[t].patch_last
       /\ turns[t].writes # <<>> /\ turns[t].writes[1] = "patch"
       /\ turns[t].gemini_reply.server_reply = ApologyText
       /\ \E i \in 1..Len(conversations) :
             /\ conversations[i].server_reply = ApologyText
             /\ conversations[i].interaction_params.relevant_info # SystemErrorInfo

\* C19 as stated: once the turn record of a request is persisted, a failure
\* of a later step is not surfaced: no request fails with its turn record
\* written.
C19_NoFailureAfterRecord ==
    \A t \in TurnIds :
       turns[t].pc = "failed" =>
          \A i \in 1..Len(turns[t].writes) : turns[t].writes[i] \notin {"conversation", "patch"}

\* C20 as stated: a storage failure in an operation on the memory entries or
\* on the turn history is fatal to the request: no request that met one is
\* still going on.
C20_StorageFailureFatal ==
    \A t \in TurnIds : InFlight(t) => turns[t].faults = {}

(***************************************************************************)
(* Claims about the lifecycle of the memory entries.                       *)
(***************************************************************************)
\* C21 as stated: every stored memory entry has a priority in 0..100,
\* whatever priorities the replies of the model carry.
C21_PriorityInRange ==
    \A i \in 1..Len(key_contexts) : key_contexts[i].context_priority \in 0..100

\* C22: an entry of priority 0 is never shown to the model: every snapshot
\* a request reads for the model holds only entries that are stored with a
\* priority of at least 1 when the snapshot is read, and carries them with
\* that priority until the model is called.
C22_ZeroNeverShown ==
    [][\A t \in TurnIds :
          /\ (InFlight(t) /\ InFlight(t)') =>
                \A i \in 1..Len(turns'[t].key_context_data) : turns'[t].key_context_data[i].context_priority >= 1
          /\ (turns[t].pc = "get_key_contexts" /\ turns'[t].pc = "get_map") =>
                /\ Len(turns'[t].snapshot_ids) = Len(turns'[t].key_context_data)
                /\ \A i \in 1..Len(turns'[t].key_context_data) :
                      LET e == GetDoc(key_contexts, turns'[t].snapshot_ids[i])
                      IN  /\ e.id # NoId
                          /\ e.context_priority >= 1
                          /\ e.context_priority = turns'[t].key_context_data[i].context_priority
                          /\ e.relevant_info = turns'[t].key_context_data[i].relevant_info]_vars

\* a request has just read its snapshot while the store holds an entry of
\* the user at priority 0, zero-marked by a request still in flight, and the
\* snapshot does not hold it
C22_Witness ==
    \E t \in TurnIds :
       /\ turns[t].pc = "get_map"
       /\ \E i \in 1..Len(key_contexts) :
             /\ key_contexts[i].user_id = turns[t].user_id
             /\ key_contexts[i].context_priority = 0
             /\ \A k \in 1..Len(turns[t].snapshot_ids) : turns[t].snapshot_ids[k] # key_contexts[i].id

\* C23: whenever a request of a user completes without error (it returns
\* its reply and no store operation failed under it) while no other request
\* of that user is in flight, the store holds no memory entry of that user
\* with priority 0.
C23_PurgedAtCompletion ==
    [][\A t \in TurnIds :
          (/\ turns[t].pc # "done" /\ turns'[t].pc = "done"
           /\ turns[t].faults = {}
           /\ \A x \in TurnIds \ {t} : ~(InFlight(x) /\ turns[x].user_id = turns[t].user_id))
             => \A i \in 1..Len(key_contexts') :
                   ~(key_contexts'[i].user_id = turns[t].user_id /\ key_contexts'[i].context_priority = 0)]_vars

\* a request under which no store operation failed has zero-marked an entry
\* and purged it, and is about to return its reply
C23_Witness ==
    \E t \in TurnIds :
       /\ turns[t].pc = "random"
       /\ turns[t].faults = {}
       /\ \E i, j \in 1..Len(turns[t].writes) :
             i < j /\ turns[t].writes[i] = "priority" /\ turns[t].writes[j] = "purge"
       /\ \A i \in 1..Len(key_contexts) : key_contexts[i].context_priority # 0

\* C24: cleanup_old_contexts deletes exactly the user's documents of
\* priority 0 and nothing else: every other document stays, unchanged and in
\* place, however far the number of the user's active documents exceeds
\* max_items.
C24_OverCapNeverDeleted ==
    last_call.op = "cleanup" =>
       key_contexts = SelectSeq(last_call.before,
                         LAMBDA e : ~(e.user_id = last_call.user_id /\ e.context_priority = 0))

\* a cleanup has run for a user who held more active documents than
\* max_items, and all of them are still there
C24_Witness ==
    /\ last_call.op = "cleanup"
    /\ ActiveCount(last_call.before, last_call.user_id) > last_call.max_items
    /\ ActiveCount(key_contexts, last_call.user_id) = ActiveCount(last_call.before, last_call.user_id)

(***************************************************************************)
(* Claims about requests in flight together.                               *)
(***************************************************************************)
\* the store holds an active document of the user with this text
HoldsActive(store, user_id, info) ==
    \E i \in 1..Len(store) :
       store[i].user_id = user_id /\ store[i].context_priority > 0 /\ store[i].relevant_info = info

\* C25: requests of the same user are not mutually excluded.  A request
\* that passed the duplicate check inserts its fact even when another
\* request has meanwhile inserted an active entry with the same text, so the
\* store then holds two; and a request that read an entry for a priority
\* update or a merge writes the whole document it read, over whatever
\* another request has stored since.
C25_NotMutuallyExcluded ==
    [][\A t \in TurnIds :
          /\ (/\ turns[t].pc = "save_context" /\ turns'[t].pc # "save_context"
              /\ turns[t].existing_context.id = NoId
              /\ HoldsActive(key_contexts, turns[t].user_id, turns[t].existing_context.relevant_info)
              /\ turns[t].existing_context.context_priority > 0)
                => /\ Len(key_contexts') = Len(key_contexts) + 1
                   /\ SubSeq(key_contexts', 1, Len(key_contexts)) = key_contexts
                   /\ key_contexts'[Len(key_contexts')].relevant_info = turns[t].existing_context.relevant_info
                   /\ key_contexts'[Len(key_contexts')].user_id = turns[t].user_id
                   /\ key_contexts'[Len(key_contexts')].context_priority > 0
          /\ (/\ turns[t].pc = "save_context" /\ turns'[t].pc # "save_context"
              /\ turns[t].existing_context.id # NoId)
                => GetDoc(key_contexts', turns[t].existing_context.id) = turns[t].existing_context
          /\ (turns[t].pc = "update_save" /\ turns'[t].pc # "update_save")
                => GetDoc(key_contexts', turns[t].context.id) = turns[t].context]_vars

\* two requests of a user in flight together have both inserted the same
\* fact, and the store holds two active entries with that text
C25_Witness ==
    \E t, x \in TurnIds :
       /\ t # x /\ InFlight(t) /\ InFlight(x)
       /\ turns[t].user_id = turns[x].user_id
       /\ turns[t].writes = <<"conversation", "fact">> /\ turns[x].writes = <<"conversation", "fact">>
       /\ turns[t].gemini_reply.interaction_params.relevant_info = turns[x].gemini_reply.interaction_params.relevant_info
       /\ \E i, j \in 1..Len(key_contexts) :
             /\ i # j
             /\ key_contexts[i].user_id = turns[t].user_id /\ key_contexts[j].user_id = turns[t].user_id
             /\ key_contexts[i].context_priority > 0 /\ key_contexts[j].context_priority > 0
             /\ key_contexts[i].relevant_info = turns[t].gemini_reply.interaction_params.relevant_info
             /\ key_contexts[j].relevant_info = turns[t].gemini_reply.interaction_params.relevant_info

\* a priority update one request has written is gone: the request is still
\* in flight, it wrote new_priority to the entry, and the entry now holds
\* another priority, written back by the merge of a request in flight with it
C25_LostUpdate ==
    \E t, x \in TurnIds :
       /\ t # x /\ InFlight(t) /\ InFlight(x)
       /\ turns[t].writes = <<"conversation", "priority">>
       /\ turns[x].writes = <<"conversation", "fact">>
       /\ Len(turns[t].gemini_reply.context_updates) = 1
       /\ LET update == turns[t].gemini_reply.context_updates[1]
              e == GetDoc(key_contexts, MapGet(turns[t].entry_to_context_map, update.entry_number))
          IN  e.id # NoId /\ e.context_priority # update.new_priority

(***************************************************************************)
(* Claims about requests of different users, checked under SpecUsers.      *)
(***************************************************************************)
\* the documents of a collection a user owns, as stored
Owned(collection, user_id) == SelectSeq(collection, LAMBDA d : d.user_id = user_id)

\* the user the request t acts for in this step
ActingUser(t) == IF turns[t].pc = "idle" THEN turns'[t].user_id ELSE turns[t].user_id

\* C26: a step of a request handled for one user leaves every memory entry
\* and every conversation record owned by another user as it was: none is
\* created, modified or deleted, whatever entry numbers the reply carries
\* and however the requests interleave.
C26_UsersIndependent ==
    [][\A t \in TurnIds : \A u \in Users :
          (turns'[t] # turns[t] /\ ActingUser(t) # u)
             => /\ Owned(key_contexts', u) = Owned(key_contexts, u)
                /\ Owned(conversations', u) = Owned(conversations, u)]_vars

\* a request of u1 whose reply names entry 2 has gone through its updates
\* while u1 holds one entry and a request of u2, which has stored a fact,
\* is in flight
C26_Witness ==
    \E t, x \in TurnIds :
       /\ turns[t].user_id = "u1" /\ turns[x].user_id = "u2"
       /\ InFlight(t) /\ InFlight(x)
       /\ turns[x].writes = <<"conversation", "fact">>
       /\ turns[t].pc = "cleanup_find"
       /\ turns[t].gemini_reply.context_updates = <<[entry_number |-> 2, new_priority |-> 5]>>
       /\ Len(turns[t].entry_to_context_map) = 1
       /\ Len(Owned(key_contexts, "u1")) = 1
       /\ Len(Owned(key_contexts, "u2")) = 1

(***************************************************************************)
(* Claims about the order of the snapshot, checked under Spec.             *)
(***************************************************************************)
\* C27: the snapshot a request holds for the model lists the entries by
\* priority descending and, among entries of equal priority, by update
\* time descending; entry_number is the position in that order, and the
\* priority sort of the context section leaves the order as it is.
C27_OrderedForModel ==
    \A t \in TurnIds :
       InFlight(t) =>
          LET data == turns[t].key_context_data
          IN  /\ \A i \in 1..Len(data) : data[i].entry_number = i
              /\ \A i, j \in 1..Len(data) :
                    i < j => \/ data[i].context_priority > data[j].context_priority
                             \/ /\ data[i].context_priority = data[j].context_priority
                                /\ data[i].timestamp >= data[j].timestamp
              /\ SortedByPriority(data) = data

\* a snapshot of two entries of equal priority: the entry updated later,
\* stored second, is at position 1
C27_Witness ==
    \E t \in TurnIds :
       /\ turns[t].pc = "get_map"
       /\ Len(turns[t].key_context_data) = 2
       /\ turns[t].key_context_data[1].context_priority = turns[t].key_context_data[2].context_priority
       /\ turns[t].key_context_data[1].timestamp > turns[t].key_context_data[2].timestamp
       /\ IndexOfId(key_contexts, turns[t].snapshot_ids[1]) > IndexOfId(key_contexts, turns[t].snapshot_ids[2])

(***************************************************************************)
(* Claims about cleanup_duplicate_contexts, checked under SpecSweep.       *)
(***************************************************************************)
\* the active documents of the user in the store that share the
\* normalised text of e, e itself left out
GroupMates(store, user_id, e) ==
    {i \in 1..Len(store) :
        /\ store[i].id # e.id
        /\ store[i].user_id = user_id /\ store[i].context_priority > 0
        /\ DuplicateKey(store[i].relevant_info) = DuplicateKey(e.relevant_info)}

\* C28: after the duplicate sweep of a user the store is the store before
\* without some of that user's active documents, the others unchanged and
\* in place; an active document of the user is kept exactly when it is the
\* most recently updated of the active documents sharing its normalised
\* text, so a document alone in its group stays; the returned count is
\* the number of documents deleted.
C28_SweepKeepsMostRecent ==
    last_call.op = "sweep" =>
       LET before == last_call.before
           u == last_call.user_id
           kept == {key_contexts[i].id : i \in 1..Len(key_contexts)}
       IN  /\ key_contexts = SelectSeq(before, LAMBDA e : e.id \in kept)
           /\ \A i \in 1..Len(before) :
                 IF before[i].user_id = u /\ before[i].context_priority > 0
                 THEN before[i].id \in kept
                         <=> \A j \in GroupMates(before, u, before[i]) : before[j].updated_at < before[i].updated_at
                 ELSE before[i].id \in kept
           /\ last_call.removed_count = Len(before) - Len(key_contexts)

\* a sweep of a store of three documents that deleted one: the user held
\* two active documents whose texts differ in case and punctuation only,
\* the one stored first updated last; that one is kept as it was
C28_Witness ==
    /\ last_call.op = "sweep"
    /\ last_call.removed_count = 1
    /\ Len(last_call.before) = 3 /\ Len(key_contexts) = 2
    /\ \E i, j \in 1..Len(last_call.before) :
          /\ i < j
          /\ last_call.before[i].user_id = last_call.user_id /\ last_call.before[j].user_id = last_call.user_id
          /\ last_call.before[i].context_priority > 0 /\ last_call.before[j].context_priority > 0
          /\ last_call.before[i].relevant_info # last_call.before[j].relevant_info
          /\ DuplicateKey(last_call.before[i].relevant_info) = DuplicateKey(last_call.before[j].relevant_info)
          /\ last_call.before[i].updated_at > last_call.before[j].updated_at
          /\ GetDoc(key_contexts, last_call.before[i].id) = last_call.before[i]
          /\ GetDoc(key_contexts, last_call.before[j].id) = NoDoc

(***************************************************************************)
(* Claims about skills other than the search, checked under SpecGateway.   *)
(***************************************************************************)
\* the request holds a reply that asks for a skill other than the search
HoldsOtherSkill(turn) ==
    /\ turn.pc \notin {"idle", "done", "failed", "get_conversations", "get_key_contexts", "get_map", "gemini"}
    /\ turn.gemini_reply.server_skill \notin {<<>>, GoogleSearchSkill}

\* C29: a reply that asks for a server skill other than GoogleSearchSkill
\* is the result of the one model call of the request: no second call is
\* pending or made, the reply stays as it was, and the request goes on as
\* with any reply: it stores the conversation with the reply's text,
\* stores the fact the reply carries, and answers with the reply's text
\* and app_params.
C29_OtherSkillIsNormalReply ==
    /\ [](\A t \in TurnIds :
            HoldsOtherSkill(turns[t]) => turns[t].model_calls = 1 /\ turns[t].pc # "gemini_search")
    /\ [][\A t \in TurnIds :
            /\ (turns[t].pc = "gemini" /\ HoldsOtherSkill(turns'[t]))
                  => turns'[t].pc = (IF turns[t].patch_last THEN "patch_find" ELSE "save_conversation")
            /\ (HoldsOtherSkill(turns[t]) /\ InFlight(t)')
                  => turns'[t].gemini_reply = turns[t].gemini_reply
            /\ (HoldsOtherSkill(turns[t]) /\ turns[t].pc = "save_conversation" /\ turns'[t].pc # "save_conversation")
                  => /\ Len(conversations') = Len(conversations) + 1
                     /\ conversations'[Len(conversations')].user_id = turns[t].user_id
                     /\ conversations'[Len(conversations')].server_reply = turns[t].gemini_reply.server_reply
            /\ (HoldsOtherSkill(turns[t]) /\ turns'[t].pc = "done" /\ ~turns[t].patch_last)
                  => /\ turns'[t].response = ServerResponse(turns[t].gemini_reply)
                     /\ turns[t].writes # <<>> /\ turns[t].writes[1] = "conversation"
                     /\ RelevantForContext(turns[t].gemini_reply)
                           => \E i \in 1..Len(turns[t].writes) : turns[t].writes[i] = "fact"]_vars

\* a request whose reply asks for WeatherSkill and carries a fact has
\* stored the conversation and the fact after one model call
C29_Witness ==
    \E t \in TurnIds :
       /\ turns[t].pc = "cleanup_find"
       /\ turns[t].gemini_reply.server_skill = UnknownSkill
       /\ turns[t].model_calls = 1
       /\ turns[t].writes = <<"conversation", "fact">>
       /\ HoldsActive(key_contexts, turns[t].user_id, turns[t].gemini_reply.interaction_params.relevant_info)

(***************************************************************************)
(* Claims about entries of negative priority, checked under                *)
(* SpecLongMemory.                                                         *)
(***************************************************************************)
\* the documents of the owner of e that the priority-then-recency order
\* puts before e
Ahead(store, e) ==
    {i \in 1..Len(store) :
        /\ store[i].user_id = e.user_id /\ store[i].id # e.id
        /\ \/ store[i].context_priority > e.context_priority
           \/ store[i].context_priority = e.context_priority /\ store[i].updated_at > e.updated_at}

\* a stored document of negative priority changes in this step only by
\* the write of a priority update aimed at it
NegativeOnlyUpdated ==
    \A i \in 1..Len(key_contexts) :
       key_contexts[i].context_priority < 0 =>
          \/ GetDoc(key_contexts', key_contexts[i].id) = key_contexts[i]
          \/ \E t \in TurnIds : /\ turns[t].pc = "update_save" /\ turns'[t].pc # "update_save"
                                 /\ turns[t].context.id = key_contexts[i].id

\* no snapshot a request takes holds a document of negative priority
NegativeNotInSnapshot ==
    \A t \in TurnIds :
       (turns[t].pc = "get_key_contexts" /\ turns'[t].pc = "get_map") =>
          /\ \A i \in 1..Len(turns'[t].key_context_data) : turns'[t].key_context_data[i].context_priority >= 1
          /\ \A i \in 1..Len(turns'[t].snapshot_ids) : GetDoc(key_contexts, turns'[t].snapshot_ids[i]).context_priority >= 1

\* C30 as stated: an entry of negative priority is in no snapshot, is
\* deleted by no cleanup, changes only by a later priority update, and has
\* a position in every index-to-id map its user's requests build.
C30_NegativeKeepsPosition ==
    [][/\ NegativeNotInSnapshot
       /\ NegativeOnlyUpdated
       /\ \A t \in TurnIds :
             (turns[t].pc = "get_map" /\ turns'[t].pc = "gemini") =>
                \A i \in 1..Len(key_contexts) :
                   (key_contexts[i].user_id = turns[t].user_id /\ key_contexts[i].context_priority < 0)
                      => key_contexts[i].id \in ToSet(turns'[t].entry_to_context_map)]_vars

\* C30, amended: an entry of negative priority is in no snapshot, is
\* deleted by no cleanup and changes only by a later priority update; it
\* has a position in the index-to-id map exactly when fewer than
\* DefaultKeyContextLimit entries of its user come before it by priority
\* and recency, and the position is one more than their number.
C30_NegativeKeepsPositionWithinLimit ==
    [][/\ NegativeNotInSnapshot
       /\ NegativeOnlyUpdated
       /\ \A t \in TurnIds :
             (turns[t].pc = "get_map" /\ turns'[t].pc = "gemini") =>
                \A i \in 1..Len(key_contexts) :
                   (key_contexts[i].user_id = turns[t].user_id /\ key_contexts[i].context_priority < 0)
                      => LET ahead == Cardinality(Ahead(key_contexts, key_contexts[i]))
                         IN  IF ahead < DefaultKeyContextLimit
                             THEN MapGet(turns'[t].entry_to_context_map, ahead + 1) = key_contexts[i].id
                             ELSE key_contexts[i].id \notin ToSet(turns'[t].entry_to_context_map)]_vars

\* a request has purged an entry of priority 0 while an entry of negative
\* priority, absent from its snapshot and last in its map, stayed stored
C30_Witness ==
    \E t \in TurnIds :
       /\ turns[t].pc = "random"
       /\ \E j \in 1..Len(turns[t].writes) : turns[t].writes[j] = "purge"
       /\ \E i \in 1..Len(key_contexts) :
             /\ key_contexts[i].user_id = turns[t].user_id
             /\ key_contexts[i].context_priority < 0
             /\ key_contexts[i].id \notin ToSet(turns[t].snapshot_ids)
             /\ turns[t].entry_to_context_map # <<>>
             /\ turns[t].entry_to_context_map[Len(turns[t].entry_to_context_map)] = key_contexts[i].id

====
